---- MODULE Spec2Model ----
(***************************************************************************)
(* A model of the two design-bearing parts of the RiceDB Python client:    *)
(*   - BaseRiceDBClient.fast_ingest (client/base_client.py), the bulk      *)
(*     ingestion engine running batches on a ThreadPoolExecutor;           *)
(*   - RiceDBClient._get_client / connect / disconnect                     *)
(*     (client/unified_client.py), the transport selector.                 *)
(* Spec is the specification of one fast_ingest call, SpecSel the one of a *)
(* sequence of operations on a unified client, SpecTransport and SpecAcl   *)
(* the ones of sequences of calls made directly on an HTTPRiceDBClient and *)
(* on a GrpcRiceDBClient (client/http_client.py, client/grpc_client.py).   *)
(***************************************************************************)
EXTENDS Integers, Sequences, FiniteSets, TLC

\* ------------------------------------------------------------------ bounds
MaxDocs == 4
MaxBatchSize == 2
MaxWorkers == 2
MaxOps == 3
MaxDownDocs == 11
MaxDownBatchSize == 1
MaxDownWorkers == 1
MaxFairDocs == 3
MaxUserDocs == 2
MaxListLen == 3
MaxElapsed == 2
MaxCallers == 2

\* ------------------------------------------------------- program constants
ErrorCap == 10
DefaultHttpPort == 3000
DefaultGrpcPort == 50051
DefaultUserId == 1

VARIABLES
    \* ---- fast_ingest: arguments
    documents,        \* the documents argument: a sequence of document ids
    batch_size,       \* the batch_size argument
    max_workers,      \* the max_workers argument
    \* ---- fast_ingest: locals of the calling thread
    pc,               \* position of the calling thread in fast_ingest
    batches,          \* the list of batches (line 558)
    submitted,        \* number of batches handed to executor.submit so far
    total_inserted,
    failed_batches,
    errors,           \* messages kept; a message is named by its batch index
    collected,        \* futures already yielded by as_completed
    summary,          \* the returned dictionary
    \* ---- fast_ingest: the executor
    queue,            \* work items waiting for a worker thread (FIFO)
    numThreads,       \* worker threads spawned so far
    idleSem,          \* the executor's idle semaphore
    running,          \* batches whose _process_batch is executing
    future,           \* per batch: the state of its future
    \* ---- fast_ingest: the transport, as observed
    stub,             \* the transport can be called (gRPC: self.stub is set)
    calls,            \* per batch: number of batch_insert calls made for it
    outcome,          \* per batch: what the transport's batch_insert did
    inserted,         \* the document ids the server stored during the call
    cached,           \* the transport batch_insert ends at: "grpc" or "http"
    connected,        \* its _connected flag
    token,            \* its token: "none" until a login stored one
    user_id,          \* the user_id argument of fast_ingest
    docUser,          \* per document: its "user_id" entry, NoUser without one
    sent,             \* per batch: the user_id of each document in the request
    \* ---- unified client
    transport_type,   \* "auto", "grpc" or "http"
    grpc_port,
    http_port,
    grpcConstructible,\* what GrpcRiceDBClient(host, port, **kwargs) does
    httpConstructible,\* what HTTPRiceDBClient(host, port, **kwargs) does
    client,           \* self._client: "none", "grpc" or "http"
    clientConnected,  \* self._client._connected
    clientStub,       \* self._client.stub is set (gRPC client only)
    uConnected,       \* self._connected of the unified client
    uPort,            \* self.port of the unified client
    pcS,              \* position of the caller inside the current operation
    curOp,            \* the operation being executed (or the last one)
    env,              \* what the two servers answer during the operation
    selecting,        \* the operation's _get_client found no cached client
    selLog,           \* what the operation did to transports, in order
    lastResult,       \* what the last finished operation gave its caller
    opsDone,          \* operations started so far
    grpcTried,        \* a GrpcRiceDBClient construction was attempted
    httpTried,        \* an HTTPRiceDBClient construction was attempted
    grpcConnectTried, \* connect() was called on a gRPC client
    httpConnectTried, \* connect() was called on an HTTP client
    grpcWon,          \* a selection returned the connected gRPC client
    lastInfo,         \* what the last get_transport_info returned
    forwarded,        \* the methods the operation called on the cached client
    \* ---- the transports, called directly
    httpConnected,    \* _connected of the HTTP client
    grpcConnected,    \* _connected of the gRPC client
    grpcStub,         \* the gRPC client's stub is set
    grpcChannel,      \* the gRPC client's channel: "none", "open" or "closed"
    grpcToken,        \* the gRPC client's token
    httpToken,        \* the HTTP client's token
    httpAuthorization,\* the Authorization header of the HTTP client's session
    trOp,             \* the last method called on a transport
    trArgs,           \* its list argument (grants, user_permissions) as user ids
    trResult,         \* what it gave its caller
    trRequests,       \* the requests and RPCs it issued, in order
    trAuth,           \* the authorization each of them carried
    \* ---- _get_client entered by several threads at once
    sharedClient,     \* self._client of the unified client
    transportState,   \* each transport object: "absent", "new", "probing",
                      \* "connected" or "unreachable"
    serverUp,         \* which of the two servers answers
    at,               \* where each thread is in _get_client
    connecting,       \* the object each thread's connect() call runs on
    handed            \* what _get_client returned to each thread

ingestVars == <<documents, batch_size, max_workers, pc, batches, submitted,
                total_inserted, failed_batches, errors, collected, summary,
                queue, numThreads, idleSem, running, future, stub, calls,
                outcome, inserted, cached, connected, token, user_id, docUser,
                sent>>

selVars == <<transport_type, grpc_port, http_port, grpcConstructible,
             httpConstructible, client, clientConnected, clientStub, uConnected,
             uPort, pcS,
             curOp, env, selecting, selLog, lastResult, opsDone, grpcTried,
             httpTried, grpcConnectTried, httpConnectTried, grpcWon,
             lastInfo, forwarded>>

trVars == <<httpConnected, grpcConnected, grpcStub, grpcChannel, grpcToken,
            httpToken, httpAuthorization, trOp, trArgs, trResult, trRequests,
            trAuth>>

raceVars == <<sharedClient, transportState, serverUp, at, connecting, handed>>

vars == <<ingestVars, selVars, trVars, raceVars>>

\* ----------------------------------------------------------------- helpers
Min(a, b) == IF a < b THEN a ELSE b

Range(s) == {s[i] : i \in 1..Len(s)}

RECURSIVE SumLens(_)
SumLens(bs) == IF bs = <<>> THEN 0 ELSE Len(Head(bs)) + SumLens(Tail(bs))

RECURSIVE Flatten(_)
Flatten(bs) == IF bs = <<>> THEN <<>> ELSE Head(bs) \o Flatten(Tail(bs))

RECURSIVE SumOver(_, _)
SumOver(S, f) ==
    IF S = {} THEN 0
    ELSE LET x == CHOOSE y \in S : TRUE IN f[x] + SumOver(S \ {x}, f)

\* documents[i : i + n] of Python, i counted from 0
Slice(docs, i, n) == SubSeq(docs, i + 1, Min(i + n, Len(docs)))

\* ============================================================== fast_ingest

\* [documents[i : i + batch_size] for i in range(0, len(documents), batch_size)]
RECURSIVE BatchesFrom(_, _, _)
BatchesFrom(docs, bsz, i) ==
    IF i >= Len(docs) THEN <<>>
    ELSE <<Slice(docs, i, bsz)>> \o BatchesFrom(docs, bsz, i + bsz)

\* faulty variant: the slice documents[i : i + batch_size - 1]
RECURSIVE BatchesFromShort(_, _, _)
BatchesFromShort(docs, bsz, i) ==
    IF i >= Len(docs) THEN <<>>
    ELSE <<Slice(docs, i, bsz - 1)>> \o BatchesFromShort(docs, bsz, i + bsz)

BatchesOffByOne(docs, bsz) == BatchesFromShort(docs, bsz, 0)

Batches(docs, bsz) == BatchesFrom(docs, bsz, 0)

NoFuture == [state |-> "pending", isExc |-> FALSE, hasCount |-> FALSE, count |-> 0]
NoOutcome == [kind |-> "none", count |-> 0]
NoSummary == [returned |-> FALSE, total_inserted |-> 0, failed_batches |-> 0,
              errors |-> <<>>]

\* What batch_insert can do with batch b: raise, or return a response that
\* reports a count, or return a response that reports none. A gRPC client
\* whose stub is not set raises at once (grpc_client.py, lines 197-198).
Outcomes(b) ==
    IF ~stub THEN {[kind |-> "raise", count |-> 0]}
    ELSE {[kind |-> "raise", count |-> 0], [kind |-> "nocount", count |-> 0]}
         \cup {[kind |-> "count", count |-> c] : c \in 0..Len(batches[b])}

\* str(result) of the exception batch b ended with: without a stub every
\* batch gets the same text, "Not connected to server" (written 0);
\* otherwise the text is the server's and is named by the batch
Message(b) == IF stub THEN b ELSE 0

\* The ids the server stored when batch_insert(batch) ended with out: none
\* when it raised, else the node_ids of the response, taken to be the first
\* count documents of the batch (all of them when no count is reported).
Stored(batch, out) ==
    CASE out.kind = "raise" -> {}
      [] out.kind = "nocount" -> Range(batch)
      [] out.kind = "count" -> {batch[i] : i \in 1..out.count}

\* faulty variant: _process_batch without its try/except
ProcessBatchPropagates(out) ==
    IF out.kind = "raise"
    THEN [state |-> "raised", isExc |-> TRUE, hasCount |-> FALSE, count |-> 0]
    ELSE [state |-> "returned", isExc |-> FALSE,
          hasCount |-> (out.kind = "count"), count |-> out.count]

\* _process_batch: the value the future of a batch ends with.
ProcessBatch(out) ==
    IF out.kind = "raise"
    THEN [state |-> "returned", isExc |-> TRUE, hasCount |-> FALSE, count |-> 0]
    ELSE [state |-> "returned", isExc |-> FALSE,
          hasCount |-> (out.kind = "count"), count |-> out.count]

\* faulty variant: a failed batch is also added to total_inserted
RecordResultCountsFailed(acc, f, b) ==
    IF f.isExc
    THEN [total_inserted |-> acc.total_inserted + Len(batches[b]),
          failed_batches |-> acc.failed_batches + 1,
          errors |-> IF Len(acc.errors) < ErrorCap
                     THEN Append(acc.errors, Message(b)) ELSE acc.errors]
    ELSE [total_inserted |-> acc.total_inserted
                             + (IF f.hasCount THEN f.count ELSE Len(batches[b])),
          failed_batches |-> acc.failed_batches,
          errors |-> acc.errors]

\* faulty variant: the count of a batch replaces the total (= for +=)
RecordResultOverwrites(acc, f, b) ==
    IF f.isExc
    THEN [total_inserted |-> acc.total_inserted,
          failed_batches |-> acc.failed_batches + 1,
          errors |-> IF Len(acc.errors) < ErrorCap
                     THEN Append(acc.errors, Message(b)) ELSE acc.errors]
    ELSE [total_inserted |-> IF f.hasCount THEN f.count ELSE Len(batches[b]),
          failed_batches |-> acc.failed_batches,
          errors |-> acc.errors]

\* faulty variant: every message is kept, the size check is missing
RecordResultNoCap(acc, f, b) ==
    IF f.isExc
    THEN [total_inserted |-> acc.total_inserted,
          failed_batches |-> acc.failed_batches + 1,
          errors |-> Append(acc.errors, Message(b))]
    ELSE [total_inserted |-> acc.total_inserted
                             + (IF f.hasCount THEN f.count ELSE Len(batches[b])),
          failed_batches |-> acc.failed_batches,
          errors |-> acc.errors]

\* faulty variant: len(errors) <= 10 for len(errors) < 10
RecordResultCapOffByOne(acc, f, b) ==
    IF f.isExc
    THEN [total_inserted |-> acc.total_inserted,
          failed_batches |-> acc.failed_batches + 1,
          errors |-> IF Len(acc.errors) <= ErrorCap
                     THEN Append(acc.errors, Message(b)) ELSE acc.errors]
    ELSE [total_inserted |-> acc.total_inserted
                             + (IF f.hasCount THEN f.count ELSE Len(batches[b])),
          failed_batches |-> acc.failed_batches,
          errors |-> acc.errors]

\* faulty variant: a success read after a failure is not counted
RecordResultStopsAfterFailure(acc, f, b) ==
    IF f.isExc
    THEN [total_inserted |-> acc.total_inserted,
          failed_batches |-> acc.failed_batches + 1,
          errors |-> IF Len(acc.errors) < ErrorCap
                     THEN Append(acc.errors, Message(b)) ELSE acc.errors]
    ELSE [total_inserted |-> IF acc.failed_batches > 0 THEN acc.total_inserted
                             ELSE acc.total_inserted
                                  + (IF f.hasCount THEN f.count ELSE Len(batches[b])),
          failed_batches |-> acc.failed_batches,
          errors |-> acc.errors]

\* faulty variant: the fallback adds batch_size, not the length of the batch
RecordResultFallbackBatchSize(acc, f, b) ==
    IF f.isExc
    THEN [total_inserted |-> acc.total_inserted,
          failed_batches |-> acc.failed_batches + 1,
          errors |-> IF Len(acc.errors) < ErrorCap
                     THEN Append(acc.errors, Message(b)) ELSE acc.errors]
    ELSE [total_inserted |-> acc.total_inserted
                             + (IF f.hasCount THEN f.count ELSE batch_size),
          failed_batches |-> acc.failed_batches,
          errors |-> acc.errors]

\* The body of the as_completed loop: the new (total_inserted,
\* failed_batches, errors) after the result f of batch b was read.
RecordResult(acc, f, b) ==
    IF f.isExc
    THEN [total_inserted |-> acc.total_inserted,
          failed_batches |-> acc.failed_batches + 1,
          errors |-> IF Len(acc.errors) < ErrorCap
                     THEN Append(acc.errors, Message(b)) ELSE acc.errors]
    ELSE [total_inserted |-> acc.total_inserted
                             + (IF f.hasCount THEN f.count ELSE Len(batches[b])),
          failed_batches |-> acc.failed_batches,
          errors |-> acc.errors]

\* line 592: total_inserted / total_time if total_time > 0 else 0, the
\* quotient written as numerator and denominator
Throughput(n, t) ==
    IF t > 0 THEN [num |-> n, den |-> t] ELSE [num |-> 0, den |-> 1]

\* the values total_time (line 586) can have, in clock ticks: zero when
\* the clock did not advance during the call
ElapsedTimes == 0..MaxElapsed

\* faulty variant: no worker thread is ever started
AdjustThreadCountNever(n) == n

\* faulty variant: a thread per submit, max_workers ignored
AdjustThreadCountUnbounded(n) == n + 1

\* ThreadPoolExecutor._adjust_thread_count: the number of threads after a
\* submit that found no idle worker.
AdjustThreadCount(n) == IF n < max_workers THEN n + 1 ELSE n

\* faulty variant: the loop is left after the first result
AsCompletedStopsEarly == collected # {} \/ Len(batches) = 0

\* The as_completed iterator has yielded every future.
AsCompletedExhausted == collected = 1..Len(batches)

\* a document without a "user_id" entry, a user_id argument that is None
NoUser == 0

\* faulty variant: the argument overrides the document's own user_id
DocUserIdArgumentWins(d, uid) ==
    IF uid # NoUser THEN uid
    ELSE IF docUser[d] # NoUser THEN docUser[d] ELSE DefaultUserId

\* doc.get("user_id", user_id if user_id is not None else 1)
\* (grpc_client.py, line 202; http_client.py, line 314) for document d and
\* batch_insert's argument uid
DocUserId(d, uid) ==
    IF docUser[d] # NoUser THEN docUser[d]
    ELSE IF uid # NoUser THEN uid ELSE DefaultUserId

\* the user_id of each InsertRequest (gRPC) or payload entry (HTTP) that
\* batch_insert(batch, uid) builds, in the order of the batch; a gRPC
\* client without a stub raises before it builds any
SentUsers(batch, uid) ==
    IF stub THEN [i \in 1..Len(batch) |-> DocUserId(batch[i], uid)] ELSE <<>>

\* the transport the call ends at: which client it is, whether it is marked
\* connected and whether a login stored a token
SharedTransport(kinds, tokens, isConnected) ==
    /\ cached \in kinds
    /\ connected = isConnected
    /\ token \in tokens

\* who owns the documents: each document has a user_id of its own from
\* docUsers (NoUser: none), the caller passes a user_id from args
Owners(docUsers, args) ==
    /\ user_id \in args
    /\ docUser \in [1..Len(documents) -> docUsers]
    /\ sent = <<>>

IngestInit ==
    /\ documents \in {[i \in 1..n |-> i] : n \in 0..MaxDocs}
    /\ batch_size \in 1..MaxBatchSize
    /\ max_workers \in 1..MaxWorkers
    /\ pc = "start"
    /\ batches = <<>>
    /\ submitted = 0
    /\ total_inserted = 0
    /\ failed_batches = 0
    /\ errors = <<>>
    /\ collected = {}
    /\ summary = NoSummary
    /\ queue = <<>>
    /\ numThreads = 0
    /\ idleSem = 0
    /\ running = {}
    /\ future = <<>>
    /\ stub = TRUE
    /\ calls = <<>>
    /\ outcome = <<>>
    /\ inserted = {}
    /\ SharedTransport({"grpc"}, {"token"}, TRUE)
    /\ Owners({NoUser}, {DefaultUserId})

\* fast_ingest is called with up to maxDocs documents, a batch_size up to
\* maxBatch and up to maxThreads workers, on a transport whose stub is set
\* (hasStub) or was never set
IngestCall(maxDocs, maxBatch, maxThreads, hasStub) ==
    /\ documents \in {[i \in 1..n |-> i] : n \in 0..maxDocs}
    /\ batch_size \in 1..maxBatch
    /\ max_workers \in 1..maxThreads
    /\ pc = "start"
    /\ batches = <<>>
    /\ submitted = 0
    /\ total_inserted = 0
    /\ failed_batches = 0
    /\ errors = <<>>
    /\ collected = {}
    /\ summary = NoSummary
    /\ queue = <<>>
    /\ numThreads = 0
    /\ idleSem = 0
    /\ running = {}
    /\ future = <<>>
    /\ stub = hasStub
    /\ calls = <<>>
    /\ outcome = <<>>
    /\ inserted = {}

\* the same call with documents that carry no user_id, the default user_id
\* argument (base_client.py, line 539) and a gRPC transport that is
\* connected and logged in exactly when its stub is set
IngestStart(maxDocs, maxBatch, maxThreads, hasStub) ==
    /\ IngestCall(maxDocs, maxBatch, maxThreads, hasStub)
    /\ SharedTransport({"grpc"}, {IF hasStub THEN "token" ELSE "none"}, hasStub)
    /\ Owners({NoUser}, {DefaultUserId})

\* lines 552-558 and the creation of the executor (567)
CreateBatches ==
    /\ pc = "start"
    /\ batches' = Batches(documents, batch_size)
    /\ future' = [b \in 1..Len(batches') |-> NoFuture]
    /\ calls' = [b \in 1..Len(batches') |-> 0]
    /\ outcome' = [b \in 1..Len(batches') |-> NoOutcome]
    /\ pc' = "submit"
    /\ UNCHANGED <<documents, batch_size, max_workers, stub, inserted, submitted, total_inserted,
                   failed_batches, errors, collected, summary, queue, numThreads,
                   idleSem, running>>
    /\ UNCHANGED <<cached, connected, token, user_id, docUser>>
    /\ sent' = [b \in 1..Len(batches') |-> <<>>]
    /\ UNCHANGED selVars
    /\ UNCHANGED trVars
    /\ UNCHANGED raceVars

\* line 569: executor.submit(_process_batch, batch) for the next batch
Submit ==
    /\ pc = "submit"
    /\ submitted < Len(batches)
    /\ submitted' = submitted + 1
    /\ queue' = Append(queue, submitted + 1)
    /\ IF idleSem > 0
       THEN /\ idleSem' = idleSem - 1
            /\ numThreads' = numThreads
       ELSE /\ idleSem' = idleSem
            /\ numThreads' = AdjustThreadCount(numThreads)
    /\ UNCHANGED <<documents, batch_size, max_workers, stub, inserted, pc, batches, total_inserted,
                   failed_batches, errors, collected, summary, running, future,
                   calls, outcome>>
    /\ UNCHANGED <<cached, connected, token, user_id, docUser>>
    /\ UNCHANGED sent
    /\ UNCHANGED selVars
    /\ UNCHANGED trVars
    /\ UNCHANGED raceVars

\* line 569 finished: the dictionary of futures is complete; line 571 starts
SubmitDone ==
    /\ pc = "submit"
    /\ submitted = Len(batches)
    /\ pc' = "collect"
    /\ UNCHANGED <<documents, batch_size, max_workers, stub, inserted, batches, submitted,
                   total_inserted, failed_batches, errors, collected, summary,
                   queue, numThreads, idleSem, running, future, calls, outcome>>
    /\ UNCHANGED <<cached, connected, token, user_id, docUser>>
    /\ UNCHANGED sent
    /\ UNCHANGED selVars
    /\ UNCHANGED trVars
    /\ UNCHANGED raceVars

\* a free worker thread takes the oldest work item and calls
\* _process_batch, which calls self.batch_insert (line 563)
WorkerStart ==
    /\ queue # <<>>
    /\ Cardinality(running) < numThreads
    /\ LET b == Head(queue) IN
        /\ running' = running \cup {b}
        /\ calls' = [calls EXCEPT ![b] = @ + 1]
    /\ queue' = Tail(queue)
    /\ UNCHANGED <<documents, batch_size, max_workers, stub, inserted, pc, batches, submitted,
                   total_inserted, failed_batches, errors, collected, summary,
                   numThreads, idleSem, future, outcome>>
    /\ UNCHANGED <<cached, connected, token, user_id, docUser>>
    /\ UNCHANGED sent
    /\ UNCHANGED selVars
    /\ UNCHANGED trVars
    /\ UNCHANGED raceVars

\* faulty variant: a batch whose batch_insert raised is queued again
WorkerFinishRetry ==
    \E b \in running : \E out \in Outcomes(b) :
        /\ outcome' = [outcome EXCEPT ![b] = out]
        /\ running' = running \ {b}
        /\ idleSem' = idleSem + 1
        /\ IF out.kind = "raise"
           THEN /\ queue' = Append(queue, b)
                /\ future' = future
           ELSE /\ queue' = queue
                /\ future' = [future EXCEPT ![b] = ProcessBatch(out)]
        /\ inserted' = inserted \cup Stored(batches[b], out)
        /\ UNCHANGED <<documents, batch_size, max_workers, stub, pc, batches,
                       submitted, total_inserted, failed_batches, errors,
                       collected, summary, numThreads, calls>>
        /\ UNCHANGED <<cached, connected, token, user_id, docUser>>
        /\ sent' = [sent EXCEPT ![b] = SentUsers(batches[b], user_id)]
        /\ UNCHANGED selVars
        /\ UNCHANGED trVars
        /\ UNCHANGED raceVars

\* faulty variant: the work item reads the loop variable when it runs, so
\* every call carries the last batch
WorkerFinishLateBinding ==
    \E b \in running : \E out \in Outcomes(b) :
        /\ outcome' = [outcome EXCEPT ![b] = out]
        /\ future' = [future EXCEPT ![b] = ProcessBatch(out)]
        /\ running' = running \ {b}
        /\ idleSem' = idleSem + 1
        /\ inserted' = inserted \cup Stored(batches[Len(batches)], out)
        /\ UNCHANGED <<documents, batch_size, max_workers, stub, pc, batches,
                       submitted, total_inserted, failed_batches, errors,
                       collected, summary, queue, numThreads, calls>>
        /\ UNCHANGED <<cached, connected, token, user_id, docUser>>
        /\ sent' = [sent EXCEPT ![b] = SentUsers(batches[b], user_id)]
        /\ UNCHANGED selVars
        /\ UNCHANGED trVars
        /\ UNCHANGED raceVars

\* faulty variant: a batch_insert that raised marks the transport as not
\* connected and forgets the token
WorkerFinishDropsConnection ==
    \E b \in running : \E out \in Outcomes(b) :
        /\ outcome' = [outcome EXCEPT ![b] = out]
        /\ future' = [future EXCEPT ![b] = ProcessBatch(out)]
        /\ running' = running \ {b}
        /\ idleSem' = idleSem + 1
        /\ inserted' = inserted \cup Stored(batches[b], out)
        /\ connected' = (connected /\ out.kind # "raise")
        /\ token' = IF out.kind = "raise" THEN "none" ELSE token
        /\ UNCHANGED <<documents, batch_size, max_workers, stub, pc, batches,
                       submitted, total_inserted, failed_batches, errors,
                       collected, summary, queue, numThreads, calls>>
        /\ UNCHANGED <<cached, user_id, docUser>>
        /\ sent' = [sent EXCEPT ![b] = SentUsers(batches[b], user_id)]
        /\ UNCHANGED selVars
        /\ UNCHANGED trVars
        /\ UNCHANGED raceVars

\* batch_insert of a running batch returns or raises; _process_batch
\* returns (lines 561-565) and the worker thread becomes idle
WorkerFinish ==
    \E b \in running : \E out \in Outcomes(b) :
        /\ outcome' = [outcome EXCEPT ![b] = out]
        /\ future' = [future EXCEPT ![b] = ProcessBatch(out)]
        /\ running' = running \ {b}
        /\ idleSem' = idleSem + 1
        /\ inserted' = inserted \cup Stored(batches[b], out)
        /\ UNCHANGED <<documents, batch_size, max_workers, stub, pc, batches,
                       submitted, total_inserted, failed_batches, errors,
                       collected, summary, queue, numThreads, calls>>
        /\ UNCHANGED <<cached, connected, token, user_id, docUser>>
        /\ sent' = [sent EXCEPT ![b] = SentUsers(batches[b], user_id)]
        /\ UNCHANGED selVars
        /\ UNCHANGED trVars
        /\ UNCHANGED raceVars

\* lines 571-584: as_completed yields a finished future, its result is read
\* and recorded; future.result() re-raises what the work item raised
Collect ==
    /\ pc = "collect"
    /\ \E b \in (1..Len(batches)) \ collected :
        /\ future[b].state # "pending"
        /\ collected' = collected \cup {b}
        /\ IF future[b].state = "raised"
           THEN /\ pc' = "raised"
                /\ UNCHANGED <<total_inserted, failed_batches, errors>>
           ELSE LET acc == RecordResult([total_inserted |-> total_inserted,
                                         failed_batches |-> failed_batches,
                                         errors |-> errors], future[b], b)
                IN /\ total_inserted' = acc.total_inserted
                   /\ failed_batches' = acc.failed_batches
                   /\ errors' = acc.errors
                   /\ pc' = pc
    /\ UNCHANGED <<documents, batch_size, max_workers, stub, inserted, batches, submitted, summary,
                   queue, numThreads, idleSem, running, future, calls, outcome>>
    /\ UNCHANGED <<cached, connected, token, user_id, docUser>>
    /\ UNCHANGED sent
    /\ UNCHANGED selVars
    /\ UNCHANGED trVars
    /\ UNCHANGED raceVars

\* the loop ends, the with block is left (shutdown(wait=True) joins the
\* worker threads, which end once no work item is left) and lines 586-593
\* build the summary
Return ==
    /\ pc = "collect"
    /\ AsCompletedExhausted
    /\ queue = <<>>
    /\ running = {}
    /\ pc' = "done"
    /\ summary' = [returned |-> TRUE, total_inserted |-> total_inserted,
                   failed_batches |-> failed_batches, errors |-> errors]
    /\ UNCHANGED <<documents, batch_size, max_workers, stub, inserted, batches, submitted,
                   total_inserted, failed_batches, errors, collected, queue,
                   numThreads, idleSem, running, future, calls, outcome>>
    /\ UNCHANGED <<cached, connected, token, user_id, docUser>>
    /\ UNCHANGED sent
    /\ UNCHANGED selVars
    /\ UNCHANGED trVars
    /\ UNCHANGED raceVars

\* =========================================================== unified client

NoResult == [kind |-> "none", value |-> "none", origin |-> "none", ports |-> {}]
NoEnv == [grpc |-> "ok", http |-> "ok"]
NoInfo == [type |-> "none", port |-> 0, acl_support |-> FALSE]

\* the unified client while fast_ingest is looked at on its own
SelIdle ==
    /\ transport_type = "auto"
    /\ grpc_port = DefaultGrpcPort
    /\ http_port = DefaultHttpPort
    /\ grpcConstructible = "ok"
    /\ httpConstructible = "ok"
    /\ client = "none"
    /\ clientConnected = FALSE
    /\ clientStub = FALSE
    /\ uConnected = FALSE
    /\ uPort = DefaultHttpPort
    /\ pcS = "idle"
    /\ curOp = "none"
    /\ env = NoEnv
    /\ selecting = FALSE
    /\ selLog = <<>>
    /\ lastResult = NoResult
    /\ opsDone = 0
    /\ grpcTried = FALSE
    /\ httpTried = FALSE
    /\ grpcConnectTried = FALSE
    /\ httpConnectTried = FALSE
    /\ grpcWon = FALSE
    /\ lastInfo = NoInfo
    /\ forwarded = <<>>

\* fast_ingest while the unified client is looked at on its own
IngestIdle ==
    /\ documents = <<>>
    /\ batch_size = 1
    /\ max_workers = 1
    /\ pc = "start"
    /\ batches = <<>>
    /\ submitted = 0
    /\ total_inserted = 0
    /\ failed_batches = 0
    /\ errors = <<>>
    /\ collected = {}
    /\ summary = NoSummary
    /\ queue = <<>>
    /\ numThreads = 0
    /\ idleSem = 0
    /\ running = {}
    /\ future = <<>>
    /\ stub = TRUE
    /\ calls = <<>>
    /\ outcome = <<>>
    /\ inserted = {}
    /\ cached = "grpc"
    /\ connected = FALSE
    /\ token = "none"
    /\ user_id = DefaultUserId
    /\ docUser = <<>>
    /\ sent = <<>>

\* the operations only one of the transports implements in full:
\* stream_search, watch_memory and subscribe (gRPC), check_permission and
\* insert_with_acl (HTTP)
CapabilityOps == {"stream_search", "watch_memory", "subscribe",
                  "check_permission", "insert_with_acl"}

\* the single-document operations of the unified client (lines 244-295)
DocumentOps == {"insert", "search", "delete"}

\* the operations of the unified client that start with self._get_client()
Ops == {"connect", "health", "get_transport_info"} \cup CapabilityOps
        \cup DocumentOps

\* what connect() / health() of a transport meet at the server: success, a
\* transport error (grpc.RpcError, requests.RequestException), another
\* exception, and for HTTP an answer whose status is not 200
GrpcAnswers == {"ok", "ConnectionError", "Exception"}
HttpAnswers == {"ok", "false", "ConnectionError", "Exception"}

Returns(v) == [kind |-> "return", value |-> v, origin |-> "none", ports |-> {}]
Raises(t, o, ps) == [kind |-> "raise", value |-> t, origin |-> o, ports |-> ps]

\* faulty variant: the missing operation is reported as a ConnectionError
UnsupportedAsConnectionError(o) == Raises("ConnectionError", o, {})

\* a RiceDBError whose text says the operation is not available on the
\* transport in use, raised by o
Unsupported(o) == Raises("RiceDBError: not supported on this transport", o, {})

\* faulty variant: the message names the HTTP port only
AggregateErrorHttpOnly == Raises("ConnectionError", "aggregate", {http_port})

\* lines 132-135: the error raised when both transports failed
AggregateError == Raises("ConnectionError", "aggregate", {grpc_port, http_port})

\* faulty variant: transport_type is ignored
EntryPointAlwaysProbes(t) == "probingPrimary"

\* lines 109, 137, 146: where _get_client goes when no client is cached
EntryPoint(t) ==
    CASE t = "auto" -> "probingPrimary"
      [] t = "grpc" -> "forcedGrpc"
      [] t = "http" -> "forcedHttp"

\* faulty variant: connect() without its try/except
SurfacePropagates(op, exc) == exc

\* faulty variant: every operation turns an exception into False
SurfaceSwallows(op, exc) == Returns("False")

\* what the caller of operation op gets when exception exc leaves
\* _get_client or the transport: connect() turns it into False (lines
\* 157-167), every other operation lets it through
Surface(op, exc) == IF op = "connect" THEN Returns("False") ELSE exc

\* faulty variant: the transport asked for is described, not the one in use
GetTransportInfoFromSetting(c) ==
    IF transport_type = "http"
    THEN [type |-> "http", port |-> http_port, acl_support |-> TRUE]
    ELSE [type |-> "grpc", port |-> grpc_port, acl_support |-> FALSE]

\* get_transport_info (lines 485-512) for the cached client c
GetTransportInfo(c) ==
    CASE c = "grpc" -> [type |-> "grpc", port |-> grpc_port, acl_support |-> FALSE]
      [] c = "http" -> [type |-> "http", port |-> http_port, acl_support |-> TRUE]
      [] OTHER -> [type |-> "unknown", port |-> 0, acl_support |-> FALSE]

PortOf(c) == IF c = "grpc" THEN grpc_port ELSE http_port

\* lines 71-102: a client is built for one of the three transport types,
\* with the default ports or with one port for both transports; whether
\* the transports accept the keyword arguments is fixed from then on
SelInit ==
    /\ transport_type \in {"auto", "grpc", "http"}
    /\ \E ps \in {<<DefaultGrpcPort, DefaultHttpPort>>, <<8080, 8080>>} :
        /\ grpc_port = ps[1]
        /\ http_port = ps[2]
    /\ grpcConstructible \in {"ok", "ImportError", "TypeError"}
    /\ httpConstructible \in {"ok", "TypeError"}
    /\ client = "none"
    /\ clientConnected = FALSE
    /\ clientStub = FALSE
    /\ uConnected = FALSE
    /\ uPort = DefaultHttpPort
    /\ pcS = "idle"
    /\ curOp = "none"
    /\ env = NoEnv
    /\ selecting = FALSE
    /\ selLog = <<>>
    /\ lastResult = NoResult
    /\ opsDone = 0
    /\ grpcTried = FALSE
    /\ httpTried = FALSE
    /\ grpcConnectTried = FALSE
    /\ httpConnectTried = FALSE
    /\ grpcWon = FALSE
    /\ lastInfo = NoInfo
    /\ forwarded = <<>>

\* faulty variant: the cached client is not looked at
CallIgnoresCache ==
    /\ pcS = "idle"
    /\ opsDone < MaxOps
    /\ \E op \in Ops, g \in GrpcAnswers, h \in HttpAnswers :
        /\ curOp' = op
        /\ env' = [grpc |-> g, http |-> h]
    /\ opsDone' = opsDone + 1
    /\ selLog' = <<>>
    /\ lastResult' = NoResult
    /\ selecting' = TRUE
    /\ pcS' = EntryPoint(transport_type)
    /\ UNCHANGED <<transport_type, grpc_port, http_port, grpcConstructible,
                   httpConstructible, client, clientConnected, clientStub,
                   uConnected, uPort, grpcTried, httpTried, grpcConnectTried,
                   httpConnectTried, grpcWon>>
    /\ lastInfo' = NoInfo
    /\ forwarded' = <<>>
    /\ UNCHANGED ingestVars
    /\ UNCHANGED trVars
    /\ UNCHANGED raceVars

\* an operation is called and enters _get_client (lines 104-107)
Call ==
    /\ pcS = "idle"
    /\ opsDone < MaxOps
    /\ \E op \in Ops, g \in GrpcAnswers, h \in HttpAnswers :
        /\ curOp' = op
        /\ env' = [grpc |-> g, http |-> h]
    /\ opsDone' = opsDone + 1
    /\ selLog' = <<>>
    /\ lastResult' = NoResult
    /\ IF client # "none"
       THEN /\ selecting' = FALSE
            /\ pcS' = "haveClient"
       ELSE /\ selecting' = TRUE
            /\ pcS' = EntryPoint(transport_type)
    /\ UNCHANGED <<transport_type, grpc_port, http_port, grpcConstructible,
                   httpConstructible, client, clientConnected, clientStub,
                   uConnected, uPort, grpcTried, httpTried, grpcConnectTried,
                   httpConnectTried, grpcWon>>
    /\ lastInfo' = NoInfo
    /\ forwarded' = <<>>
    /\ UNCHANGED ingestVars
    /\ UNCHANGED trVars
    /\ UNCHANGED raceVars

\* lines 169-173
Disconnect ==
    /\ pcS = "idle"
    /\ opsDone < MaxOps
    /\ opsDone' = opsDone + 1
    /\ curOp' = "disconnect"
    /\ selLog' = <<>>
    /\ selecting' = FALSE
    /\ lastResult' = Returns("None")
    /\ IF client # "none"
       THEN /\ clientConnected' = FALSE
            /\ uConnected' = FALSE
       ELSE UNCHANGED <<clientConnected, uConnected>>
    /\ UNCHANGED <<transport_type, grpc_port, http_port, grpcConstructible,
                   httpConstructible, client, clientStub, uPort, pcS, env,
                   grpcTried, httpTried, grpcConnectTried, httpConnectTried,
                   grpcWon>>
    /\ UNCHANGED <<lastInfo, forwarded>>
    /\ UNCHANGED ingestVars
    /\ UNCHANGED trVars
    /\ UNCHANGED raceVars

\* line 112: auto mode constructs the gRPC client; an exception of the
\* constructor is caught at 116-121 and leads to the HTTP attempt
GrpcConstruct ==
    /\ pcS = "probingPrimary"
    /\ grpcTried' = TRUE
    /\ IF grpcConstructible = "ok"
       THEN /\ client' = "grpc"
            /\ clientConnected' = FALSE
            /\ clientStub' = FALSE
            /\ selLog' = Append(selLog, "grpc_constructed")
            /\ pcS' = "connectingPrimary"
       ELSE /\ selLog' = Append(selLog, "grpc_construct_failed")
            /\ pcS' = "probingSecondary"
            /\ UNCHANGED <<client, clientConnected, clientStub>>
    /\ UNCHANGED <<transport_type, grpc_port, http_port, grpcConstructible,
                   httpConstructible, uConnected, uPort, curOp, env, selecting,
                   lastResult, opsDone, httpTried, grpcConnectTried,
                   httpConnectTried, grpcWon>>
    /\ UNCHANGED <<lastInfo, forwarded>>
    /\ UNCHANGED ingestVars
    /\ UNCHANGED trVars
    /\ UNCHANGED raceVars

\* faulty variant: the error of the gRPC connect is not caught
GrpcConnectNoFallback ==
    /\ pcS = "connectingPrimary"
    /\ grpcConnectTried' = TRUE
    /\ clientStub' = TRUE
    /\ IF env.grpc = "ok"
       THEN /\ clientConnected' = TRUE
            /\ grpcWon' = TRUE
            /\ selLog' = Append(selLog, "grpc_connected")
            /\ pcS' = "haveClient"
            /\ UNCHANGED lastResult
       ELSE /\ selLog' = Append(selLog, "grpc_connect_failed")
            /\ pcS' = "idle"
            /\ lastResult' = Surface(curOp, Raises(env.grpc, "grpc", {}))
            /\ UNCHANGED <<clientConnected, grpcWon>>
    /\ UNCHANGED <<transport_type, grpc_port, http_port, grpcConstructible,
                   httpConstructible, client, uConnected, uPort, curOp, env,
                   selecting, opsDone, grpcTried, httpTried,
                   httpConnectTried>>
    /\ UNCHANGED <<lastInfo, forwarded>>
    /\ UNCHANGED ingestVars
    /\ UNCHANGED trVars
    /\ UNCHANGED raceVars

\* faulty variant: the return of line 115 is missing
GrpcConnectNoReturn ==
    /\ pcS = "connectingPrimary"
    /\ grpcConnectTried' = TRUE
    /\ clientStub' = TRUE
    /\ IF env.grpc = "ok"
       THEN /\ clientConnected' = TRUE
            /\ grpcWon' = TRUE
            /\ selLog' = Append(selLog, "grpc_connected")
            /\ pcS' = "probingSecondary"
       ELSE /\ selLog' = Append(selLog, "grpc_connect_failed")
            /\ pcS' = "probingSecondary"
            /\ UNCHANGED <<clientConnected, grpcWon>>
    /\ UNCHANGED <<transport_type, grpc_port, http_port, grpcConstructible,
                   httpConstructible, client, uConnected, uPort, curOp, env,
                   selecting, lastResult, opsDone, grpcTried, httpTried,
                   httpConnectTried>>
    /\ UNCHANGED <<lastInfo, forwarded>>
    /\ UNCHANGED ingestVars
    /\ UNCHANGED trVars
    /\ UNCHANGED raceVars

\* lines 113-121: auto mode connects the gRPC client; success returns it,
\* any exception is caught and leads to the HTTP attempt
GrpcConnect ==
    /\ pcS = "connectingPrimary"
    /\ grpcConnectTried' = TRUE
    /\ clientStub' = TRUE
    /\ IF env.grpc = "ok"
       THEN /\ clientConnected' = TRUE
            /\ grpcWon' = TRUE
            /\ selLog' = Append(selLog, "grpc_connected")
            /\ pcS' = "haveClient"
       ELSE /\ selLog' = Append(selLog, "grpc_connect_failed")
            /\ pcS' = "probingSecondary"
            /\ UNCHANGED <<clientConnected, grpcWon>>
    /\ UNCHANGED <<transport_type, grpc_port, http_port, grpcConstructible,
                   httpConstructible, client, uConnected, uPort, curOp, env,
                   selecting, lastResult, opsDone, grpcTried, httpTried,
                   httpConnectTried>>
    /\ UNCHANGED <<lastInfo, forwarded>>
    /\ UNCHANGED ingestVars
    /\ UNCHANGED trVars
    /\ UNCHANGED raceVars

\* line 125: auto mode constructs the HTTP client; an exception of the
\* constructor is not a ConnectionError and leaves _get_client
HttpConstruct ==
    /\ pcS = "probingSecondary"
    /\ httpTried' = TRUE
    /\ IF httpConstructible = "ok"
       THEN /\ client' = "http"
            /\ clientConnected' = FALSE
            /\ clientStub' = FALSE
            /\ selLog' = Append(selLog, "http_constructed")
            /\ pcS' = "connectingSecondary"
            /\ UNCHANGED lastResult
       ELSE /\ selLog' = Append(selLog, "http_construct_failed")
            /\ pcS' = "idle"
            /\ lastResult' = Surface(curOp, Raises(httpConstructible, "http", {}))
            /\ UNCHANGED <<client, clientConnected, clientStub>>
    /\ UNCHANGED <<transport_type, grpc_port, http_port, grpcConstructible,
                   httpConstructible, uConnected, uPort, curOp, env, selecting,
                   opsDone, grpcTried, grpcConnectTried, httpConnectTried,
                   grpcWon>>
    /\ UNCHANGED <<lastInfo, forwarded>>
    /\ UNCHANGED ingestVars
    /\ UNCHANGED trVars
    /\ UNCHANGED raceVars

\* lines 126-135: auto mode connects the HTTP client; success returns it, a
\* ConnectionError or a False result ends in the aggregated error, any
\* other exception leaves _get_client as it is
HttpConnect ==
    /\ pcS = "connectingSecondary"
    /\ httpConnectTried' = TRUE
    /\ IF env.http = "ok"
       THEN /\ clientConnected' = TRUE
            /\ selLog' = Append(selLog, "http_connected")
            /\ pcS' = "haveClient"
            /\ UNCHANGED lastResult
       ELSE /\ clientConnected' = FALSE
            /\ selLog' = Append(selLog, "http_connect_failed")
            /\ pcS' = "idle"
            /\ lastResult' =
                IF env.http \in {"false", "ConnectionError"}
                THEN Surface(curOp, AggregateError)
                ELSE Surface(curOp, Raises(env.http, "http", {}))
    /\ UNCHANGED <<transport_type, grpc_port, http_port, grpcConstructible,
                   httpConstructible, client, clientStub, uConnected, uPort,
                   curOp, env, selecting, opsDone, grpcTried, httpTried,
                   grpcConnectTried, grpcWon>>
    /\ UNCHANGED <<lastInfo, forwarded>>
    /\ UNCHANGED ingestVars
    /\ UNCHANGED trVars
    /\ UNCHANGED raceVars

\* lines 137-149: a forced mode constructs the named client and returns it
\* unconnected; an ImportError of the gRPC constructor becomes a RiceDBError
ForcedConstruct ==
    /\ pcS \in {"forcedGrpc", "forcedHttp"}
    /\ LET kind == IF pcS = "forcedGrpc" THEN "grpc" ELSE "http"
           can == IF kind = "grpc" THEN grpcConstructible ELSE httpConstructible
       IN /\ grpcTried' = (grpcTried \/ kind = "grpc")
          /\ httpTried' = (httpTried \/ kind = "http")
          /\ IF can = "ok"
             THEN /\ client' = kind
                  /\ clientConnected' = FALSE
                  /\ clientStub' = FALSE
                  /\ selLog' = Append(selLog, kind \o "_constructed")
                  /\ pcS' = "haveClient"
                  /\ UNCHANGED lastResult
             ELSE /\ selLog' = Append(selLog, kind \o "_construct_failed")
                  /\ pcS' = "idle"
                  /\ lastResult' =
                        Surface(curOp,
                                Raises(IF kind = "grpc" /\ can = "ImportError"
                                       THEN "RiceDBError" ELSE can, kind, {}))
                  /\ UNCHANGED <<client, clientConnected, clientStub>>
    /\ UNCHANGED <<transport_type, grpc_port, http_port, grpcConstructible,
                   httpConstructible, uConnected, uPort, curOp, env, selecting,
                   opsDone, grpcConnectTried, httpConnectTried, grpcWon>>
    /\ UNCHANGED <<lastInfo, forwarded>>
    /\ UNCHANGED ingestVars
    /\ UNCHANGED trVars
    /\ UNCHANGED raceVars

\* the answer of the server the cached client talks to
Answer == IF client = "grpc" THEN env.grpc ELSE env.http

\* faulty variant: connect() calls the transport's connect even when the
\* client is connected
ConnectBodyAlwaysConnects ==
    /\ pcS = "haveClient"
    /\ curOp = "connect"
    /\ pcS' = "idle"
    /\ grpcConnectTried' = (grpcConnectTried \/ client = "grpc")
    /\ httpConnectTried' = (httpConnectTried \/ client = "http")
    /\ clientStub' = (clientStub \/ client = "grpc")
    /\ IF Answer = "ok"
       THEN /\ clientConnected' = TRUE
            /\ uConnected' = TRUE
            /\ uPort' = PortOf(client)
            /\ selLog' = Append(selLog, client \o "_connected")
            /\ lastResult' = Returns("True")
       ELSE /\ clientConnected' = FALSE
            /\ selLog' = Append(selLog, client \o "_connect_failed")
            /\ lastResult' =
                IF Answer = "false" THEN Returns("False")
                ELSE Surface(curOp, Raises(Answer, client, {}))
            /\ UNCHANGED <<uConnected, uPort>>
    /\ UNCHANGED <<transport_type, grpc_port, http_port, grpcConstructible,
                   httpConstructible, client, curOp, env, selecting, opsDone,
                   grpcTried, httpTried, grpcWon>>
    /\ UNCHANGED <<lastInfo, forwarded>>
    /\ UNCHANGED ingestVars
    /\ UNCHANGED trVars
    /\ UNCHANGED raceVars

\* connect(), lines 159-165, with the client _get_client returned
ConnectBody ==
    /\ pcS = "haveClient"
    /\ curOp = "connect"
    /\ pcS' = "idle"
    /\ IF clientConnected
       THEN /\ lastResult' = Returns("True")
            /\ UNCHANGED <<clientConnected, clientStub, uConnected, uPort, selLog,
                           grpcConnectTried, httpConnectTried>>
       ELSE /\ grpcConnectTried' = (grpcConnectTried \/ client = "grpc")
            /\ httpConnectTried' = (httpConnectTried \/ client = "http")
            /\ clientStub' = (clientStub \/ client = "grpc")
            /\ IF Answer = "ok"
               THEN /\ clientConnected' = TRUE
                    /\ uConnected' = TRUE
                    /\ uPort' = PortOf(client)
                    /\ selLog' = Append(selLog, client \o "_connected")
                    /\ lastResult' = Returns("True")
               ELSE /\ clientConnected' = FALSE
                    /\ selLog' = Append(selLog, client \o "_connect_failed")
                    /\ lastResult' =
                        IF Answer = "false" THEN Returns("False")
                        ELSE Surface(curOp, Raises(Answer, client, {}))
                    /\ UNCHANGED <<uConnected, uPort>>
    /\ UNCHANGED <<transport_type, grpc_port, http_port, grpcConstructible,
                   httpConstructible, client, curOp, env, selecting, opsDone,
                   grpcTried, httpTried, grpcWon>>
    /\ UNCHANGED <<lastInfo, forwarded>>
    /\ UNCHANGED ingestVars
    /\ UNCHANGED trVars
    /\ UNCHANGED raceVars

\* health(), lines 181-182: forwarded to the client _get_client returned;
\* the gRPC client refuses without a stub, both clients turn a transport
\* error into a ConnectionError
HealthBody ==
    /\ pcS = "haveClient"
    /\ curOp = "health"
    /\ pcS' = "idle"
    /\ lastResult' =
        IF client = "grpc" /\ ~clientStub
        THEN Surface(curOp, Raises("ConnectionError", "grpc", {}))
        ELSE IF Answer = "ok" THEN Returns("ok")
        ELSE IF Answer = "Exception"
        THEN Surface(curOp, Raises("Exception", client, {}))
        ELSE Surface(curOp, Raises("ConnectionError", client, {}))
    /\ UNCHANGED <<transport_type, grpc_port, http_port, grpcConstructible,
                   httpConstructible, client, clientConnected, clientStub,
                   uConnected, uPort, curOp, env, selecting, selLog, opsDone,
                   grpcTried, httpTried, grpcConnectTried, httpConnectTried,
                   grpcWon>>
    /\ forwarded' = <<client \o ".health">>
    /\ UNCHANGED lastInfo
    /\ UNCHANGED ingestVars
    /\ UNCHANGED trVars
    /\ UNCHANGED raceVars

\* get_transport_info(), lines 482-512, with the client _get_client
\* returned; the result is written as a return whose value is the reported
\* type and whose ports hold the reported port
InfoBody ==
    /\ pcS = "haveClient"
    /\ curOp = "get_transport_info"
    /\ pcS' = "idle"
    /\ lastResult' = [kind |-> "return", value |-> GetTransportInfo(client).type,
                      origin |-> "none", ports |-> {GetTransportInfo(client).port}]
    /\ UNCHANGED <<transport_type, grpc_port, http_port, grpcConstructible,
                   httpConstructible, client, clientConnected, clientStub,
                   uConnected, uPort, curOp, env, selecting, selLog, opsDone,
                   grpcTried, httpTried, grpcConnectTried, httpConnectTried,
                   grpcWon>>
    /\ lastInfo' = GetTransportInfo(client)
    /\ UNCHANGED forwarded
    /\ UNCHANGED ingestVars
    /\ UNCHANGED trVars
    /\ UNCHANGED raceVars

\* what the transport c does when the unified client calls
\*   insert   client.insert(node_id, text, metadata, user_id, session_id)
\*   search   client.search(query, user_id, k, session_id)
\*   delete   client.delete(node_id, session_id=session_id)
\* on it while the server answers a. The gRPC methods take no session_id
\* (grpc_client.py, lines 112-118, 153, 340), so the call itself raises
\* TypeError; the HTTP methods turn a failed request into InsertError,
\* SearchError and RiceDBError (http_client.py, lines 199-200, 229-230,
\* 123-124).
DocumentResult(op, c, a) ==
    IF c = "grpc" THEN Raises("TypeError", "grpc", {})
    ELSE IF a = "ok" THEN Returns("ok")
    ELSE IF a = "Exception" THEN Raises("Exception", "http", {})
    ELSE Raises(CASE op = "insert" -> "InsertError"
                  [] op = "search" -> "SearchError"
                  [] op = "delete" -> "RiceDBError", "http", {})

\* insert, search and delete (lines 244-295): forwarded to the client
\* _get_client returned, whose result or exception is the operation's
DocumentBody ==
    /\ pcS = "haveClient"
    /\ curOp \in DocumentOps
    /\ pcS' = "idle"
    /\ lastResult' =
        LET r == DocumentResult(curOp, client, Answer)
        IN IF r.kind = "raise" THEN Surface(curOp, r) ELSE r
    /\ UNCHANGED <<transport_type, grpc_port, http_port, grpcConstructible,
                   httpConstructible, client, clientConnected, clientStub,
                   uConnected, uPort, curOp, env, selecting, selLog, opsDone,
                   grpcTried, httpTried, grpcConnectTried, httpConnectTried,
                   grpcWon>>
    /\ forwarded' = <<client \o "." \o curOp>>
    /\ UNCHANGED lastInfo
    /\ UNCHANGED ingestVars
    /\ UNCHANGED trVars
    /\ UNCHANGED raceVars

\* what a capability operation gives its caller once _get_client returned
\* client c, whose stub is set or not and whose server answers a:
\*   stream_search   unified_client.py 352-355, grpc_client.py 216-241
\*   watch_memory    http_client.py 666-668, grpc_client.py 603-626
\*   subscribe       http_client.py 731-740, grpc_client.py 425-452
\*   check_permission  grpc_client.py 496-510, http_client.py 471-496
\*   insert_with_acl   grpc_client.py 454-471 (a plain insert for the first
\*                     user), http_client.py 543-600
\* The gRPC methods that yield are generators: the call returns an iterator.
CapabilityResult(op, c, hasStub, a) ==
    CASE op = "stream_search" ->
            IF c # "grpc" THEN Unsupported("unified") ELSE Returns("iterator")
      [] op \in {"watch_memory", "subscribe"} ->
            IF c = "http" THEN Unsupported("http") ELSE Returns("iterator")
      [] op = "check_permission" ->
            IF c = "grpc" THEN Returns("False")
            ELSE IF a = "ok" THEN Returns("allowed")
            ELSE IF a = "Exception" THEN Raises("Exception", "http", {})
            ELSE Raises("RiceDBError", "http", {})
      [] op = "insert_with_acl" ->
            IF c = "grpc" /\ ~hasStub THEN Raises("ConnectionError", "grpc", {})
            ELSE IF a = "ok" THEN Returns("ok")
            ELSE IF a = "Exception" THEN Raises("Exception", c, {})
            ELSE Raises("InsertError", c, {})

\* faulty variant: stream_search without its isinstance check
ForwardedUnguarded(op, c) == <<c \o "." \o op>>

\* the methods a capability operation calls on the client c that
\* _get_client returned: stream_search is forwarded to a gRPC client only
\* (unified_client.py, lines 352-355), the others always
Forwarded(op, c) ==
    IF op = "stream_search" /\ c # "grpc" THEN <<>> ELSE <<c \o "." \o op>>

\* a capability operation, forwarded to the client _get_client returned
CapabilityBody ==
    /\ pcS = "haveClient"
    /\ curOp \in CapabilityOps
    /\ pcS' = "idle"
    /\ lastResult' = CapabilityResult(curOp, client, clientStub, Answer)
    /\ UNCHANGED <<transport_type, grpc_port, http_port, grpcConstructible,
                   httpConstructible, client, clientConnected, clientStub,
                   uConnected, uPort, curOp, env, selecting, selLog, opsDone,
                   grpcTried, httpTried, grpcConnectTried, httpConnectTried,
                   grpcWon>>
    /\ forwarded' = Forwarded(curOp, client)
    /\ UNCHANGED lastInfo
    /\ UNCHANGED ingestVars
    /\ UNCHANGED trVars
    /\ UNCHANGED raceVars

\* ============================================================ the transports

\* what a method of a transport gives its caller: a value or an exception,
\* and for batch_grant and insert_with_acl the fields of the dictionary
NoTrResult ==
    [kind |-> "none", value |-> "none", total |-> 0, successful |-> 0,
     failed |-> 0, results |-> <<>>, errors |-> <<>>, acl_grants |-> FALSE,
     acl_users |-> <<>>]

TrReturns(v) == [NoTrResult EXCEPT !.kind = "return", !.value = v]
TrRaises(e) == [NoTrResult EXCEPT !.kind = "raise", !.value = e]

\* a request or RPC: what is asked, for which user, and the server's answer
Request(r, u, a) == [req |-> r, user |-> u, answer |-> a]

\* the user ids of the callers' lists: two users, so that a list can name
\* them in either order and name one twice
UserIds == {1, 2}

\* the lists of user ids a caller passes as grants or user_permissions
UserLists == UNION {[1..n -> UserIds] : n \in 0..MaxListLen}

\* what the server does with GET /health: status 200, another status, or
\* the request raises a requests.RequestException
HealthAnswers == {"200", "503", "RequestException"}

\* what the server does with POST /acl/grant: the request succeeds, it
\* raises a RequestException (RiceDBError in grant_permission), or the call
\* raises something else
GrantAnswers == {"ok", "RequestException", "Exception"}

\* what the server does with POST /insert: success, a response whose
\* success field is false, or the request raises a RequestException
InsertAnswers == {"ok", "unsuccessful", "RequestException"}

\* the tokens a login can return
Tokens == {"t1", "t2"}

\* f"Bearer {self.token}" (http_client.py, line 53; grpc_client.py, line 57)
Bearer(t) == "Bearer " \o t

\* _metadata() of the gRPC client (lines 54-58): the authorization entry
\* when a token is stored, else nothing (written "none")
GrpcMetadata(t) == IF t # "none" THEN Bearer(t) ELSE "none"

\* the authorization every request of the HTTP client's session carries:
\* the session's Authorization header, set by login only (line 53)
SessionAuth(requests) == [i \in DOMAIN requests |-> httpAuthorization]

\* what the server does with POST /auth/login: it answers with a token,
\* answers without one (data["token"] raises KeyError), or the request
\* raises a RequestException
LoginAnswers == {"ok", "KeyError", "RequestException"}

\* the transports before any call (both constructors: _connected False, no
\* stub, no channel, no token)
TrInit ==
    /\ httpConnected = FALSE
    /\ grpcConnected = FALSE
    /\ grpcStub = FALSE
    /\ grpcChannel = "none"
    /\ grpcToken = "none"
    /\ httpToken = "none"
    /\ httpAuthorization = "none"
    /\ trOp = "none"
    /\ trArgs = <<>>
    /\ trResult = NoTrResult
    /\ trRequests = <<>>
    /\ trAuth = <<>>

\* the transports while fast_ingest or the unified client is looked at
TrIdle == TrInit

\* HTTPRiceDBClient.connect, lines 126-137
HttpClientConnect ==
    \E a \in HealthAnswers :
        /\ trOp' = "http.connect"
        /\ trArgs' = <<>>
        /\ trRequests' = <<Request("GET /health", 0, a)>>
        /\ IF a = "RequestException"
           THEN /\ trResult' = TrRaises("ConnectionError: Failed to connect")
                /\ UNCHANGED httpConnected
           ELSE /\ httpConnected' = (a = "200")
                /\ trResult' = TrReturns(IF a = "200" THEN "True" ELSE "False")
        /\ trAuth' = SessionAuth(trRequests')
        /\ UNCHANGED <<grpcConnected, grpcStub, grpcChannel, grpcToken,
                       httpToken, httpAuthorization>>
        /\ UNCHANGED <<ingestVars, selVars, raceVars>>

\* HTTPRiceDBClient.disconnect, lines 139-143
HttpClientDisconnect ==
    /\ trOp' = "http.disconnect"
    /\ trArgs' = <<>>
    /\ trRequests' = <<>>
    /\ trResult' = TrReturns("None")
    /\ httpConnected' = FALSE
    /\ trAuth' = <<>>
    /\ UNCHANGED <<grpcConnected, grpcStub, grpcChannel, grpcToken,
                   httpToken, httpAuthorization>>
    /\ UNCHANGED <<ingestVars, selVars, raceVars>>

\* faulty variant: after a failed grant the loop makes no further request
GrantStepStopsAfterError(acc, i, u, a) ==
    IF acc.errors # <<>> THEN acc
    ELSE IF a = "ok"
    THEN [acc EXCEPT !.requests = Append(@, Request("grant", u, a)),
                     !.results = Append(@, i)]
    ELSE [acc EXCEPT !.requests = Append(@, Request("grant", u, a)),
                     !.errors = Append(@, i)]

\* the body of batch_grant's loop (lines 513-534) for the grant at index i,
\* for user u, which the server answers with a: grant_permission posts the
\* request; its result is appended to results, any exception to errors
GrantStep(acc, i, u, a) ==
    IF a = "ok"
    THEN [acc EXCEPT !.requests = Append(@, Request("grant", u, a)),
                     !.results = Append(@, i)]
    ELSE [acc EXCEPT !.requests = Append(@, Request("grant", u, a)),
                     !.errors = Append(@, i)]

\* batch_grant (lines 498-541) for the grants of the users in grants, the
\* server answering the k-th grant request with ans[k]: the dictionary
\* returned and the requests made
BatchGrant(grants, ans) ==
    LET loop[i \in 0..Len(grants)] ==
            IF i = 0 THEN [requests |-> <<>>, results |-> <<>>, errors |-> <<>>]
            ELSE GrantStep(loop[i - 1], i, grants[i], ans[i])
        end == loop[Len(grants)]
    IN [result |-> [TrReturns("dict") EXCEPT !.total = Len(grants),
                                             !.successful = Len(end.results),
                                             !.failed = Len(end.errors),
                                             !.results = end.results,
                                             !.errors = end.errors],
        requests |-> end.requests]

\* HTTPRiceDBClient.batch_grant called with a list of grants
HttpBatchGrant ==
    \E grants \in UserLists : \E ans \in [1..Len(grants) -> GrantAnswers] :
        /\ trOp' = "http.batch_grant"
        /\ trArgs' = grants
        /\ LET call == BatchGrant(grants, ans)
           IN /\ trResult' = call.result
              /\ trRequests' = call.requests
        /\ trAuth' = SessionAuth(trRequests')
        /\ UNCHANGED <<httpConnected, grpcConnected, grpcStub, grpcChannel,
                       grpcToken, httpToken, httpAuthorization>>
        /\ UNCHANGED <<ingestVars, selVars, raceVars>>

\* faulty variant: the first user gets a grant request as well
AdditionalGrantsAll(users) == users

\* lines 581-583: the grants insert_with_acl asks for, user_permissions[1:]
AdditionalGrants(users) == Tail(users)

\* insert_with_acl (lines 543-596) for the users of user_permissions, the
\* server answering the insert with ia and the k-th grant request with
\* ans[k]: what the caller gets and the requests made
InsertWithAcl(users, ia, ans) ==
    IF users = <<>>
    THEN [result |-> TrRaises("ValueError"), requests |-> <<>>]
    ELSE IF ia # "ok"
    THEN [result |-> TrRaises("InsertError: Failed to insert with ACL"),
          requests |-> <<Request("insert", users[1], ia)>>]
    ELSE LET additional == AdditionalGrants(users)
             g == BatchGrant(additional, ans)
             response == IF additional # <<>>
                         THEN [g.result EXCEPT !.acl_grants = TRUE]
                         ELSE TrReturns("dict")
         IN [result |-> [response EXCEPT !.acl_users = users],
             requests |-> <<Request("insert", users[1], ia)>>
                          \o (IF additional # <<>> THEN g.requests ELSE <<>>)]

\* HTTPRiceDBClient.insert_with_acl called with a list of user permissions
HttpInsertWithAcl ==
    \E users \in UserLists : \E ia \in InsertAnswers :
        \E ans \in [1..(IF ia = "ok" /\ users # <<>>
                         THEN Len(AdditionalGrants(users)) ELSE 0) -> GrantAnswers] :
            /\ trOp' = "http.insert_with_acl"
            /\ trArgs' = users
            /\ LET call == InsertWithAcl(users, ia, ans)
               IN /\ trResult' = call.result
                  /\ trRequests' = call.requests
            /\ trAuth' = SessionAuth(trRequests')
            /\ UNCHANGED <<httpConnected, grpcConnected, grpcStub, grpcChannel,
                           grpcToken, httpToken, httpAuthorization>>
            /\ UNCHANGED <<ingestVars, selVars, raceVars>>

\* GrpcRiceDBClient.connect, lines 74-89: the channel and the stub are set
\* before the Health call that tests the connection
GrpcClientConnect ==
    \E a \in {"ok", "RpcError"} :
        /\ trOp' = "grpc.connect"
        /\ trArgs' = <<>>
        /\ trRequests' = <<Request("Health", 0, a)>>
        /\ grpcChannel' = "open"
        /\ grpcStub' = TRUE
        /\ IF a = "ok"
           THEN /\ grpcConnected' = TRUE
                /\ trResult' = TrReturns("True")
           ELSE /\ trResult' = TrRaises("ConnectionError: Failed to connect")
                /\ UNCHANGED grpcConnected
        /\ trAuth' = <<"none">>
        /\ UNCHANGED <<httpConnected, grpcToken, httpToken, httpAuthorization>>
        /\ UNCHANGED <<ingestVars, selVars, raceVars>>

\* GrpcRiceDBClient.disconnect, lines 91-95: the stub stays
GrpcClientDisconnect ==
    /\ trOp' = "grpc.disconnect"
    /\ trArgs' = <<>>
    /\ trRequests' = <<>>
    /\ trResult' = TrReturns("None")
    /\ grpcChannel' = IF grpcChannel = "none" THEN "none" ELSE "closed"
    /\ grpcConnected' = FALSE
    /\ trAuth' = <<>>
    /\ UNCHANGED <<httpConnected, grpcStub, grpcToken, httpToken,
                   httpAuthorization>>
    /\ UNCHANGED <<ingestVars, selVars, raceVars>>

\* the methods of the gRPC client that make one RPC
GrpcCallOps == {"health", "login", "insert", "search", "batch_insert"}

\* the RPC of each
RpcOf(op) ==
    CASE op = "health" -> "Health"
      [] op = "login" -> "Login"
      [] op = "insert" -> "Insert"
      [] op = "search" -> "Search"
      [] op = "batch_insert" -> "BatchInsert"

\* what each makes of a grpc.RpcError (lines 72, 110, 151, 183, 214)
RpcErrorOf(op) ==
    CASE op = "health" -> "ConnectionError: Health check failed"
      [] op = "login" -> "ConnectionError: Login failed"
      [] op = "insert" -> "InsertError"
      [] op = "search" -> "SearchError"
      [] op = "batch_insert" -> "InsertError"

\* what invoking a method of the stub can do: answer or raise RpcError on
\* an open channel; on a closed channel grpc refuses the call with a
\* ValueError or an RpcError
StubAnswers(channel) ==
    IF channel = "closed" THEN {"ValueError", "RpcError"} ELSE {"ok", "RpcError"}

\* the RPCs that are made without metadata (lines 67, 107)
Unauthenticated == {"health", "login"}

\* health, login, insert, search, batch_insert of the gRPC client (lines
\* 60-72, 97-110, 112-151, 153-183, 185-214): without a stub
\* ConnectionError("Not connected to server"), else the RPC is made on the
\* stub, with the metadata of _metadata() except for Health and Login, and
\* an RpcError becomes the method's error; login stores the token of the
\* response and returns it
GrpcClientCall ==
    \E op \in GrpcCallOps : \E a \in StubAnswers(grpcChannel) :
        /\ trOp' = "grpc." \o op
        /\ trArgs' = <<>>
        /\ IF ~grpcStub
           THEN /\ trResult' = TrRaises("ConnectionError: Not connected to server")
                /\ trRequests' = <<>>
                /\ trAuth' = <<>>
                /\ UNCHANGED grpcToken
           ELSE /\ trRequests' = <<Request(RpcOf(op), 0, a)>>
                /\ trAuth' = <<IF op \in Unauthenticated THEN "none"
                               ELSE GrpcMetadata(grpcToken)>>
                /\ grpcToken' \in IF op = "login" /\ a = "ok" THEN Tokens
                                  ELSE {grpcToken}
                /\ trResult' = CASE a = "ok" -> TrReturns(IF op = "login"
                                                          THEN grpcToken' ELSE "ok")
                                 [] a = "RpcError" -> TrRaises(RpcErrorOf(op))
                                 [] a = "ValueError" -> TrRaises("ValueError")
        /\ UNCHANGED <<httpConnected, grpcConnected, grpcStub, grpcChannel,
                       httpToken, httpAuthorization>>
        /\ UNCHANGED <<ingestVars, selVars, raceVars>>

\* faulty variant: the token is dropped before the login request is made
HttpClientLoginClearsFirst ==
    \E a \in LoginAnswers :
        /\ trOp' = "http.login"
        /\ trArgs' = <<>>
        /\ trRequests' = <<Request("POST /auth/login", 0, a)>>
        /\ trAuth' = <<"none">>
        /\ IF a = "ok"
           THEN /\ httpToken' \in Tokens
                /\ httpAuthorization' = Bearer(httpToken')
                /\ trResult' = TrReturns(httpToken')
           ELSE /\ httpToken' = "none"
                /\ httpAuthorization' = "none"
                /\ trResult' = TrRaises(IF a = "KeyError" THEN "KeyError"
                                        ELSE "AuthenticationError: Login failed")
        /\ UNCHANGED <<httpConnected, grpcConnected, grpcStub, grpcChannel,
                       grpcToken>>
        /\ UNCHANGED <<ingestVars, selVars, raceVars>>

\* HTTPRiceDBClient.login, lines 33-56: the token of the response is stored
\* and put into the session's Authorization header; a RequestException
\* becomes AuthenticationError, a response without a token raises KeyError,
\* both before anything is stored
HttpClientLogin ==
    \E a \in LoginAnswers :
        /\ trOp' = "http.login"
        /\ trArgs' = <<>>
        /\ trRequests' = <<Request("POST /auth/login", 0, a)>>
        /\ trAuth' = SessionAuth(trRequests')
        /\ IF a = "ok"
           THEN /\ httpToken' \in Tokens
                /\ httpAuthorization' = Bearer(httpToken')
                /\ trResult' = TrReturns(httpToken')
           ELSE /\ trResult' = TrRaises(IF a = "KeyError" THEN "KeyError"
                                        ELSE "AuthenticationError: Login failed")
                /\ UNCHANGED <<httpToken, httpAuthorization>>
        /\ UNCHANGED <<httpConnected, grpcConnected, grpcStub, grpcChannel,
                       grpcToken>>
        /\ UNCHANGED <<ingestVars, selVars, raceVars>>

\* the methods of the HTTP client that make one request
HttpCallOps == {"insert", "search", "batch_insert"}

\* what each makes of a requests.RequestException (lines 200-201,
\* 229-230, 332-333)
RequestErrorOf(op) ==
    CASE op = "insert" -> "InsertError"
      [] op = "search" -> "SearchError"
      [] op = "batch_insert" -> "InsertError"

\* insert, search and batch_insert of the HTTP client (lines 158-201,
\* 203-230, 300-333): one POST on the session, which sends the session's
\* headers; no check of _connected is made; insert raises InsertError as
\* well when the response says it did not succeed
HttpClientCall ==
    \E op \in HttpCallOps :
      \E a \in IF op = "insert" THEN InsertAnswers ELSE {"ok", "RequestException"} :
        /\ trOp' = "http." \o op
        /\ trArgs' = <<>>
        /\ trRequests' = <<Request("POST /" \o op, 0, a)>>
        /\ trAuth' = SessionAuth(trRequests')
        /\ trResult' = IF a = "ok" THEN TrReturns("ok")
                       ELSE TrRaises(RequestErrorOf(op))
        /\ UNCHANGED <<httpConnected, grpcConnected, grpcStub, grpcChannel,
                       grpcToken, httpToken, httpAuthorization>>
        /\ UNCHANGED <<ingestVars, selVars, raceVars>>

\* ==================================== _get_client entered by several threads
\* fast_ingest on a unified client that has no transport cached yet: the
\* worker threads call batch_insert, each of which starts with
\* self._get_client() (unified_client.py, line 334). _get_client takes no
\* lock; a thread can be suspended between any two of its statements, and
\* during the network calls of connect() the other threads run.

Callers == 1..MaxCallers

\* the transport objects: each thread that runs the selection constructs its
\* own
Transports == [owner : Callers, kind : {"grpc", "http"}]

NoTransport == [owner |-> 0, kind |-> "none"]
NotHanded == [client |-> NoTransport, state |-> "none"]

\* no thread in _get_client
RaceIdle ==
    /\ sharedClient = NoTransport
    /\ transportState = [o \in Transports |-> "absent"]
    /\ serverUp = [grpc |-> TRUE, http |-> TRUE]
    /\ at = [t \in Callers |-> "done"]
    /\ connecting = [t \in Callers |-> NoTransport]
    /\ handed = [t \in Callers |-> NotHanded]

\* lines 71-102: a fresh auto-mode client, every thread about to call
\* _get_client; each server is up or down for the whole run
RaceInit ==
    /\ sharedClient = NoTransport
    /\ transportState = [o \in Transports |-> "absent"]
    /\ serverUp \in [grpc : BOOLEAN, http : BOOLEAN]
    /\ at = [t \in Callers |-> "enter"]
    /\ connecting = [t \in Callers |-> NoTransport]
    /\ handed = [t \in Callers |-> NotHanded]

\* return self._client: the thread gets whatever the attribute holds now,
\* in the state that object is in
HandOver(t) == [handed EXCEPT ![t] = [client |-> sharedClient,
                                      state |-> transportState[sharedClient]]]

\* lines 106-109: the cached client is returned when there is one, else the
\* selection starts
GetClientEnter(t) ==
    /\ at[t] = "enter"
    /\ IF sharedClient # NoTransport
       THEN /\ handed' = HandOver(t)
            /\ at' = [at EXCEPT ![t] = "returned"]
       ELSE /\ at' = [at EXCEPT ![t] = "grpcConstruct"]
            /\ UNCHANGED handed
    /\ UNCHANGED <<sharedClient, transportState, serverUp, connecting>>
    /\ UNCHANGED <<ingestVars, selVars, trVars>>

\* lines 112 and 125: self._client = GrpcRiceDBClient(...) and
\* self._client = HTTPRiceDBClient(...): the new object is stored before it
\* is connected
GetClientConstruct(t) ==
    /\ at[t] \in {"grpcConstruct", "httpConstruct"}
    /\ LET k == IF at[t] = "grpcConstruct" THEN "grpc" ELSE "http"
           o == [owner |-> t, kind |-> k]
       IN /\ transportState' = [transportState EXCEPT ![o] = "new"]
          /\ sharedClient' = o
          /\ at' = [at EXCEPT ![t] = k \o "Connect"]
    /\ UNCHANGED <<serverUp, connecting, handed>>
    /\ UNCHANGED <<ingestVars, selVars, trVars>>

\* lines 113 and 126, first half: self._client is read again and connect()
\* is called on the object found there, which starts its network call
GetClientConnectBegin(t) ==
    /\ at[t] \in {"grpcConnect", "httpConnect"}
    /\ connecting' = [connecting EXCEPT ![t] = sharedClient]
    /\ transportState' =
        [transportState EXCEPT ![sharedClient] =
            IF @ = "connected" THEN "connected" ELSE "probing"]
    /\ at' = [at EXCEPT ![t] = IF at[t] = "grpcConnect" THEN "grpcConnecting"
                               ELSE "httpConnecting"]
    /\ UNCHANGED <<sharedClient, serverUp, handed>>
    /\ UNCHANGED <<ingestVars, selVars, trVars>>

\* lines 113-121 and 126-135, second half: connect() comes back. On success
\* the thread goes on to its return statement; a failure of the first
\* attempt is caught and leads to the HTTP attempt, a failure of the
\* second (an exception or a False result) to the aggregated
\* ConnectionError
GetClientConnectEnd(t) ==
    /\ at[t] \in {"grpcConnecting", "httpConnecting"}
    /\ LET o == connecting[t]
           ok == serverUp[o.kind]
       IN /\ transportState' = [transportState EXCEPT ![o] =
                                    IF ok THEN "connected" ELSE "unreachable"]
          /\ at' = [at EXCEPT ![t] =
                        IF ok THEN "return"
                        ELSE IF at[t] = "grpcConnecting" THEN "httpConstruct"
                        ELSE "raised"]
    /\ connecting' = [connecting EXCEPT ![t] = NoTransport]
    /\ UNCHANGED <<sharedClient, serverUp, handed>>
    /\ UNCHANGED <<ingestVars, selVars, trVars>>

\* lines 115 and 128: return self._client
GetClientReturn(t) ==
    /\ at[t] = "return"
    /\ handed' = HandOver(t)
    /\ at' = [at EXCEPT ![t] = "returned"]
    /\ UNCHANGED <<sharedClient, transportState, serverUp, connecting>>
    /\ UNCHANGED <<ingestVars, selVars, trVars>>

Init == IngestInit /\ SelIdle /\ TrIdle /\ RaceIdle

Next ==
    \/ CreateBatches
    \/ Submit
    \/ SubmitDone
    \/ WorkerStart
    \/ WorkerFinish
    \/ Collect
    \/ Return

Spec == Init /\ [][Next]_vars

\* fast_ingest on a gRPC client that was never connected: self.stub is None
\* and every batch_insert raises ConnectionError("Not connected to server")
InitDown ==
    /\ IngestStart(MaxDownDocs, MaxDownBatchSize, MaxDownWorkers, FALSE)
    /\ SelIdle
    /\ TrIdle
    /\ RaceIdle

SpecDown == InitDown /\ [][Next]_vars

\* fast_ingest when the threads are scheduled fairly and every batch_insert
\* call comes to an end: the calling thread and the workers each take their
\* next step eventually
Fairness ==
    /\ WF_vars(CreateBatches)
    /\ WF_vars(Submit)
    /\ WF_vars(SubmitDone)
    /\ WF_vars(WorkerStart)
    /\ WF_vars(WorkerFinish)
    /\ WF_vars(Collect)
    /\ WF_vars(Return)

\* the call ends at a connected gRPC or HTTP client, logged in or not
InitFair ==
    /\ IngestCall(MaxFairDocs, MaxBatchSize, MaxWorkers, TRUE)
    /\ SharedTransport({"grpc", "http"}, {"none", "token"}, TRUE)
    /\ Owners({NoUser}, {DefaultUserId})
    /\ SelIdle
    /\ TrIdle
    /\ RaceIdle

SpecFair == InitFair /\ [][Next]_vars /\ Fairness

\* fast_ingest with documents of which some carry a user_id of their own
\* (2), called with user_id None, left at its default or given as 3
InitUser ==
    /\ IngestCall(MaxUserDocs, MaxBatchSize, MaxWorkers, TRUE)
    /\ SharedTransport({"grpc", "http"}, {"token"}, TRUE)
    /\ Owners({NoUser, 2}, {NoUser, DefaultUserId, 3})
    /\ SelIdle
    /\ TrIdle
    /\ RaceIdle

SpecUser == InitUser /\ [][Next]_vars

InitSel == IngestIdle /\ SelInit /\ TrIdle /\ RaceIdle

NextSel ==
    \/ Call
    \/ Disconnect
    \/ GrpcConstruct
    \/ GrpcConnect
    \/ HttpConstruct
    \/ HttpConnect
    \/ ForcedConstruct
    \/ ConnectBody
    \/ HealthBody
    \/ InfoBody
    \/ CapabilityBody
    \/ DocumentBody

SpecSel == InitSel /\ [][NextSel]_vars

InitTransport == IngestIdle /\ SelIdle /\ TrInit /\ RaceIdle

\* connecting, disconnecting and calling the two transports
NextTransport ==
    \/ HttpClientConnect
    \/ HttpClientDisconnect
    \/ GrpcClientConnect
    \/ GrpcClientDisconnect
    \/ GrpcClientCall
    \/ HttpClientLogin
    \/ HttpClientCall

SpecTransport == InitTransport /\ [][NextTransport]_vars

\* the access control calls of the HTTP client, which neither read nor
\* write whether the client is connected
NextAcl ==
    \/ HttpBatchGrant
    \/ HttpInsertWithAcl

SpecAcl == InitTransport /\ [][NextAcl]_vars

\* the threads of one fast_ingest call entering _get_client of a fresh
\* auto-mode client
InitRace == IngestIdle /\ SelIdle /\ TrIdle /\ RaceInit

NextRace ==
    \E t \in Callers :
        \/ GetClientEnter(t)
        \/ GetClientConstruct(t)
        \/ GetClientConnectBegin(t)
        \/ GetClientConnectEnd(t)
        \/ GetClientReturn(t)

SpecRace == InitRace /\ [][NextRace]_vars

\* ------------------------------------------------- fast_ingest: the claims
Raised == {b \in DOMAIN outcome : outcome[b].kind = "raise"}
Succeeded == {b \in DOMAIN outcome : outcome[b].kind \in {"count", "nocount"}}

\* what a successful batch_insert reported: its count, or, when the response
\* carries none, the length of the batch (the fallback of line 584)
Reported ==
    [b \in DOMAIN outcome |->
        IF outcome[b].kind = "count" THEN outcome[b].count ELSE Len(batches[b])]

\* C1: fast_ingest never raises because a batch failed: the error of every
\* batch_insert call that raises is caught (it becomes the value of the
\* batch's future), each such batch read so far has added exactly one to
\* failed_batches, the call can always go on until it returns, and it
\* returns a summary once every batch has been processed.
C1_NeverRaises ==
    /\ pc # "raised"
    /\ \A b \in Raised : future[b].state = "returned" /\ future[b].isExc
    /\ failed_batches = Cardinality(collected \cap Raised)
    /\ (pc # "done" => ENABLED Next)
    /\ (pc = "done" => summary.returned /\ collected = DOMAIN batches)

C1_Witness ==
    /\ pc = "done"
    /\ summary.returned
    /\ Raised # {}
    /\ Succeeded # {}
    /\ summary.failed_batches = Cardinality(Raised)

\* C2: at every moment total_inserted is the sum of the reported counts of
\* the successful batches read so far and failed_batches the number of
\* failed batches read so far; hence on return total_inserted is the sum
\* over all successful batches, failed_batches the number of batches whose
\* batch_insert raised, and a failed batch adds nothing to total_inserted.
C2_SummaryCounts ==
    /\ total_inserted = SumOver(collected \cap Succeeded, Reported)
    /\ failed_batches = Cardinality(collected \cap Raised)
    /\ pc = "done" =>
        /\ summary.total_inserted = SumOver(Succeeded, Reported)
        /\ summary.failed_batches = Cardinality(Raised)

\* three equal batches, one of which failed while the others reported
\* their length: total_inserted is two batches' worth, one error is kept
C2_Witness ==
    /\ pc = "done"
    /\ Len(batches) = 3
    /\ \A b \in DOMAIN batches : Len(batches[b]) = batch_size
    /\ Cardinality(Raised) = 1
    /\ \A b \in Succeeded : outcome[b] = [kind |-> "count", count |-> batch_size]
    /\ summary.total_inserted = 2 * batch_size
    /\ summary.failed_batches = 1
    /\ Len(summary.errors) = 1

\* C3: the batches are contiguous slices of the documents in input order:
\* concatenated they give the documents back, every batch is non-empty and
\* holds at most batch_size documents, every batch but the last holds
\* exactly batch_size, every document is in exactly one batch and the
\* lengths sum to len(documents).
C3_Partition ==
    pc # "start" =>
        /\ Flatten(batches) = documents
        /\ SumLens(batches) = Len(documents)
        /\ \A k \in DOMAIN batches :
            /\ Len(batches[k]) >= 1
            /\ Len(batches[k]) <= batch_size
            /\ (k < Len(batches) => Len(batches[k]) = batch_size)
        /\ \A d \in Range(documents) :
            Cardinality({k \in DOMAIN batches : d \in Range(batches[k])}) = 1

C3_Witness ==
    /\ pc # "start"
    /\ Len(batches) >= 2
    /\ Len(batches[Len(batches)]) < batch_size

\* number of batch_insert calls that carried document d
DocCalls(d) == SumOver({k \in DOMAIN batches : d \in Range(batches[k])}, calls)

\* C4: batch_insert is called at most once for a batch and, by the time
\* fast_ingest returns, exactly once; a batch whose call failed is not put
\* back in the queue, and no document is sent in more than one call.
C4_ExactlyOnce ==
    /\ \A b \in DOMAIN calls : calls[b] <= 1
    /\ \A b \in Raised : b \notin Range(queue) /\ b \notin running
    /\ \A d \in Range(documents) : pc # "start" => DocCalls(d) <= 1
    /\ pc = "done" =>
        /\ \A b \in DOMAIN calls : calls[b] = 1
        /\ \A d \in Range(documents) : DocCalls(d) = 1

C4_Witness ==
    /\ pc = "done"
    /\ Len(batches) >= 2
    /\ \E b \in Raised : calls[b] = 1 /\ \A d \in Range(batches[b]) : DocCalls(d) = 1

\* C5: at most max_workers batch_insert calls execute at any moment (the
\* pool never has more than max_workers threads), although every batch is
\* handed to the pool before the first result is read.
C5_BoundedWorkers ==
    /\ Cardinality(running) <= max_workers
    /\ numThreads <= max_workers
    /\ (pc \in {"collect", "done"} => submitted = Len(batches))
    /\ (collected # {} => submitted = Len(batches))

\* the pool is saturated while submitted batches still wait in the queue
C5_Witness ==
    /\ pc = "collect"
    /\ max_workers >= 2
    /\ Cardinality(running) = max_workers
    /\ Len(queue) >= 2
    /\ collected = {}

\* C6: when fast_ingest has returned, every batch has completed and been
\* recorded (recorded successes plus failed_batches is the number of
\* batches), no worker is executing or has work waiting, and the summary
\* is the value computed at return.
C6_ReturnsAfterAll ==
    pc = "done" =>
        /\ Cardinality(collected \cap Succeeded) + summary.failed_batches
            = Len(batches)
        /\ \A b \in DOMAIN future : future[b].state # "pending"
        /\ running = {}
        /\ queue = <<>>
        /\ summary = [returned |-> TRUE, total_inserted |-> total_inserted,
                      failed_batches |-> failed_batches, errors |-> errors]

C6_Witness ==
    /\ pc = "done"
    /\ Len(batches) >= 3
    /\ running = {}
    /\ Cardinality(collected \cap Succeeded) >= 2
    /\ summary.failed_batches >= 1
    /\ numThreads = max_workers

\* C15 as stated: fast_ingest on a transport that is not connected makes no
\* batch_insert call and returns no summary that counts batches as failed.
C15_RaisesBeforeBatches ==
    ~stub => /\ \A b \in DOMAIN calls : calls[b] = 0
             /\ ~(summary.returned /\ summary.failed_batches > 0)

\* C15 as amended: fast_ingest on a gRPC transport that was never connected
\* does not raise: batch_insert is called once for every batch, each call
\* raises the not-connected error, which is caught, nothing is stored, and
\* the call returns a summary that counts every batch as failed.
C15_NotConnectedSummary ==
    ~stub =>
        /\ pc # "raised"
        /\ inserted = {}
        /\ \A b \in DOMAIN outcome : outcome[b].kind \in {"none", "raise"}
        /\ \A b \in DOMAIN future : future[b].state = "returned" => future[b].isExc
        /\ pc = "done" =>
            /\ summary.returned
            /\ \A b \in DOMAIN calls : calls[b] = 1
            /\ summary.failed_batches = Len(batches)
            /\ summary.total_inserted = 0

C15_Witness ==
    /\ ~stub
    /\ pc = "done"
    /\ summary.returned
    /\ Len(batches) = 3
    /\ summary.failed_batches = 3
    /\ \A b \in DOMAIN calls : calls[b] = 1

\* C16: when every batch_insert call of a run has failed, the summary has
\* total_inserted 0, failed_batches equal to the number of batches and
\* min(10, failed_batches) messages.
C16_AllFail ==
    (pc = "done" /\ Raised = DOMAIN batches) =>
        /\ summary.total_inserted = 0
        /\ summary.failed_batches = Len(batches)
        /\ Len(summary.errors) = Min(10, summary.failed_batches)

\* eleven batches failed: ten messages are kept
C16_Witness ==
    /\ pc = "done"
    /\ Raised = DOMAIN batches
    /\ Len(batches) = 11
    /\ summary.failed_batches = 11
    /\ Len(summary.errors) = 10
    /\ summary.total_inserted = 0

\* C17: when every batch_insert call of a run has succeeded, the summary has
\* failed_batches 0 and no messages, and when every call reported the
\* length of its batch total_inserted is len(documents).
C17_AllSucceed ==
    (pc = "done" /\ Succeeded = DOMAIN batches) =>
        /\ summary.failed_batches = 0
        /\ summary.errors = <<>>
        /\ (\A b \in DOMAIN batches : outcome[b].kind = "count"
                                       /\ outcome[b].count = Len(batches[b]))
            => summary.total_inserted = Len(documents)

\* full batches on two workers, the server always succeeds
C17_Witness ==
    /\ pc = "done"
    /\ Len(documents) = 4
    /\ batch_size = 2
    /\ max_workers = 2
    /\ \A b \in DOMAIN batches : outcome[b] = [kind |-> "count", count |-> 2]
    /\ summary.total_inserted = 4
    /\ summary.failed_batches = 0
    /\ summary.errors = <<>>

\* the failures read so far, of which a failure just read is one
JustFailed == (collected' \ collected) \cap Raised

RECURSIVE SequentialInsert(_, _, _)
SequentialInsert(bs, pattern, k) ==
    IF k > Len(bs) THEN {}
    ELSE Stored(bs[k], pattern[k]) \cup SequentialInsert(bs, pattern, k + 1)

\* the batches whose batch_insert call has ended
Ended == {b \in DOMAIN outcome : outcome[b].kind # "none"}

\* C19: with max_workers = 1 the calls end in the order of the batches and
\* the ids stored are at every moment those a sequential run of
\* batch_insert over the batches ended so far stores; on return they are
\* the ids a sequential run over the whole partition stores.
C19_SequentialEquivalent ==
    (max_workers = 1 /\ pc # "start") =>
        /\ Ended = 1..Cardinality(Ended)
        /\ inserted = SequentialInsert(SubSeq(Batches(documents, batch_size),
                                              1, Cardinality(Ended)),
                                       outcome, 1)
        /\ pc = "done" =>
            inserted = SequentialInsert(Batches(documents, batch_size), outcome, 1)

C19_Witness ==
    /\ max_workers = 1
    /\ pc = "done"
    /\ Len(batches) >= 3
    /\ Raised # {}
    /\ \E b \in Succeeded : outcome[b].kind = "count" /\ outcome[b].count < Len(batches[b])
    /\ inserted # {}
    /\ inserted # Range(documents)

\* C20: when the threads are scheduled fairly and every batch_insert call
\* comes to an end, fast_ingest eventually returns its summary.
C20_EventuallyReturns == <>(pc = "done" /\ summary.returned)

C20_Witness ==
    /\ pc = "done"
    /\ summary.returned
    /\ max_workers = 2
    /\ Len(batches) = 3
    /\ numThreads = 2

\* ----------------------------------------------- unified client: the claims
\* the last operation has returned to its caller
Finished == pcS = "idle" /\ curOp \in Ops

\* the channels as the operation in progress (or the last one) meets them
GrpcFails == grpcConstructible # "ok" \/ env.grpc # "ok"
HttpFails == httpConstructible # "ok" \/ env.http # "ok"

GrpcFailures == {"grpc_construct_failed", "grpc_connect_failed"}
HttpEvents == {"http_constructed", "http_construct_failed", "http_connected",
               "http_connect_failed"}

C8_SelectorOrder ==
    transport_type = "auto" =>
        /\ pcS \in {"idle", "probingPrimary", "connectingPrimary",
                    "probingSecondary", "connectingSecondary", "haveClient"}
        /\ (pcS \in {"probingPrimary", "connectingPrimary", "probingSecondary",
                     "connectingSecondary"} => selecting)
        /\ (pcS = "probingPrimary" => selLog = <<>>)
        /\ (pcS = "probingSecondary" =>
                selLog # <<>> /\ selLog[Len(selLog)] \in GrpcFailures)
        /\ (selecting /\ selLog # <<>> =>
                selLog[1] \in {"grpc_constructed", "grpc_construct_failed"})
        /\ \A i \in DOMAIN selLog :
            /\ (selecting /\ selLog[i] \in {"http_constructed", "http_construct_failed"}
                    => i > 1 /\ selLog[i - 1] \in GrpcFailures)
            /\ (selecting /\ selLog[i] \in {"http_connected", "http_connect_failed"}
                    => i > 1 /\ selLog[i - 1] = "http_constructed")
            /\ (selLog[i] = "grpc_connected" =>
                    \A j \in DOMAIN selLog : j > i => selLog[j] \notin HttpEvents)
        /\ (httpTried => grpcTried)
        /\ (grpcWon => ~httpTried /\ ~httpConnectTried /\ client = "grpc")

\* the selection that ends in Failed: both attempts were made, in order
C8_Witness ==
    /\ transport_type = "auto"
    /\ Finished
    /\ selecting
    /\ selLog = <<"grpc_constructed", "grpc_connect_failed", "http_constructed",
                  "http_connect_failed">>
    /\ ~grpcWon

\* C9 as stated: in auto mode, when neither transport can be established
\* (both clients can be constructed, neither server answers its connect),
\* connect() raises the aggregated connection error to its caller.
C9_RaisesAggregate ==
    (/\ transport_type = "auto"
     /\ Finished
     /\ curOp = "connect"
     /\ selecting
     /\ grpcConstructible = "ok"
     /\ httpConstructible = "ok"
     /\ env.grpc # "ok"
     /\ env.http # "ok")
    => lastResult = Raises("ConnectionError", "aggregate", {grpc_port, http_port})

\* C9 as amended: in auto mode, when the selection finds neither transport,
\* connect() returns False; when the HTTP connect raised a ConnectionError
\* or returned a non-success result, every other operation that ran the
\* selection raises to its caller one ConnectionError naming the gRPC port
\* and the HTTP port, and no connected transport is cached.
C9_AggregateOrFalse ==
    (/\ transport_type = "auto"
     /\ Finished
     /\ selecting
     /\ GrpcFails
     /\ HttpFails)
    => /\ ~clientConnected
       /\ lastResult.kind # "none"
       /\ (curOp = "connect" => lastResult = Returns("False"))
       /\ (curOp # "connect" /\ httpConstructible = "ok"
                /\ env.http \in {"false", "ConnectionError"}
            => lastResult = Raises("ConnectionError", "aggregate",
                                   {grpc_port, http_port}))

C9_Witness ==
    /\ transport_type = "auto"
    /\ Finished
    /\ curOp = "health"
    /\ selecting
    /\ GrpcFails
    /\ env.http = "false"
    /\ grpc_port # http_port
    /\ lastResult.kind = "raise"
    /\ lastResult.origin = "aggregate"
    /\ lastResult.ports = {grpc_port, http_port}

\* C10: in a forced mode only the named transport is ever constructed or
\* connected and only it is ever cached, whatever the operations and
\* whatever the servers answer.
C10_ForcedOnly ==
    /\ (transport_type = "grpc" =>
            /\ ~httpTried
            /\ ~httpConnectTried
            /\ client \in {"none", "grpc"}
            /\ \A i \in DOMAIN selLog : selLog[i] \notin HttpEvents)
    /\ (transport_type = "http" =>
            /\ ~grpcTried
            /\ ~grpcConnectTried
            /\ client \in {"none", "http"}
            /\ \A i \in DOMAIN selLog :
                selLog[i] \in {"http_constructed", "http_construct_failed",
                               "http_connected", "http_connect_failed"})
    /\ (transport_type # "auto" =>
            pcS \notin {"probingPrimary", "connectingPrimary",
                        "probingSecondary", "connectingSecondary"})

\* the forced gRPC connect failed while the HTTP server was reachable
C10_Witness ==
    /\ transport_type = "grpc"
    /\ Finished
    /\ curOp = "connect"
    /\ env = [grpc |-> "ConnectionError", http |-> "ok"]
    /\ httpConstructible = "ok"
    /\ lastResult = Returns("False")
    /\ client = "grpc"
    /\ ~clientConnected
    /\ grpcConnectTried
    /\ ~httpTried

\* the transport a forced mode names
Forced == transport_type

LastEvent == IF selLog = <<>> THEN "none" ELSE selLog[Len(selLog)]

\* C11 as stated: in a forced mode, when the connect of the forced transport
\* raises a connection error, connect() raises that transport's
\* ConnectionError to its caller.
C11_PropagatesError ==
    (/\ transport_type \in {"grpc", "http"}
     /\ Finished
     /\ curOp = "connect"
     /\ LastEvent = Forced \o "_connect_failed"
     /\ Answer = "ConnectionError")
    => lastResult = Raises("ConnectionError", Forced, {})

\* C11 as amended: in a forced mode, when the connect of the forced transport
\* raises, connect() returns False: nothing is raised, no other transport is
\* tried, the forced transport stays cached and unconnected. Whatever any
\* operation raises in a forced mode, it is never the aggregated error.
C11_ForcedReturnsFalse ==
    transport_type \in {"grpc", "http"} =>
        /\ (/\ Finished
            /\ curOp = "connect"
            /\ LastEvent = Forced \o "_connect_failed")
           => /\ lastResult = Returns("False")
              /\ client = Forced
              /\ ~clientConnected
              /\ selLog \in {<<Forced \o "_connect_failed">>,
                             <<Forced \o "_constructed",
                               Forced \o "_connect_failed">>}
        /\ (curOp = "connect" => lastResult.kind # "raise")
        /\ lastResult.origin # "aggregate"

\* forcePrimary while only the HTTP server is reachable
C11_Witness ==
    /\ transport_type = "grpc"
    /\ Finished
    /\ curOp = "connect"
    /\ selecting
    /\ env = [grpc |-> "ConnectionError", http |-> "ok"]
    /\ selLog = <<"grpc_constructed", "grpc_connect_failed">>
    /\ lastResult = Returns("False")
    /\ ~clientConnected

\* C12: once _get_client has a transport cached and the selection is over,
\* every later step keeps that transport: no operation constructs a
\* transport, enters the selection or replaces the cached client, and every
\* operation called from then on finds the cached client.
C12_CachedReused ==
    [][(client # "none" /\ pcS \in {"idle", "haveClient"})
        => /\ client' = client
           /\ grpcTried' = grpcTried
           /\ httpTried' = httpTried
           /\ pcS' \in {"idle", "haveClient"}
           /\ (pcS = "idle" /\ pcS' # "idle" => ~selecting')]_vars

\* the third operation on a client whose first operation selected gRPC
C12_Witness ==
    /\ transport_type = "auto"
    /\ Finished
    /\ opsDone = 3
    /\ curOp = "stream_search"
    /\ ~selecting
    /\ client = "grpc"
    /\ grpcWon
    /\ ~httpTried
    /\ lastResult = Returns("iterator")

\* C13 as stated: after disconnect() no transport is cached.
C13_DisconnectResets ==
    (pcS = "idle" /\ curOp = "disconnect") => client = "none"

\* the transport in use lacks the operation (what get_transport_info and the
\* docstrings of the unified client say: streaming needs gRPC, ACL needs HTTP)
Lacks(c, op) ==
    \/ c = "http" /\ op \in {"stream_search", "watch_memory", "subscribe"}
    \/ c = "grpc" /\ op \in {"check_permission", "insert_with_acl"}

\* C14 as stated: a capability operation called while the connected
\* transport lacks it ends with an error that says the operation is not
\* supported on this transport, never with a result.
C14_UnsupportedLabelled ==
    (/\ Finished
     /\ curOp \in CapabilityOps
     /\ clientConnected
     /\ Lacks(client, curOp))
    => /\ lastResult.kind = "raise"
       /\ lastResult.value = Unsupported("any").value

\* C21: whenever get_transport_info returns, it describes the cached
\* transport: type grpc, the gRPC port and no ACL support when that is the
\* gRPC client, type http, the HTTP port and ACL support when it is the HTTP
\* client, whatever operations came before.
C21_InfoDescribesCached ==
    (Finished /\ curOp = "get_transport_info" /\ lastResult.kind = "return") =>
        /\ client \in {"grpc", "http"}
        /\ lastInfo.type = client
        /\ (client = "grpc" =>
                lastInfo = [type |-> "grpc", port |-> grpc_port,
                            acl_support |-> FALSE])
        /\ (client = "http" =>
                lastInfo = [type |-> "http", port |-> http_port,
                            acl_support |-> TRUE])
        /\ lastResult.value = client
        /\ lastResult.ports = {PortOf(client)}

\* asked after a fallback to HTTP and a disconnect
C21_Witness ==
    /\ transport_type = "auto"
    /\ Finished
    /\ curOp = "get_transport_info"
    /\ opsDone = 3
    /\ ~selecting
    /\ grpcConnectTried
    /\ client = "http"
    /\ ~clientConnected
    /\ uPort = http_port
    /\ grpc_port # http_port
    /\ lastInfo = [type |-> "http", port |-> http_port, acl_support |-> TRUE]

\* the last operation got a client from _get_client and ran its body
GotClient ==
    /\ Finished
    /\ \/ ~selecting
       \/ LastEvent \in {"grpc_connected", "http_connected", "grpc_constructed",
                         "http_constructed"}

\* C22: stream_search on a unified client whose transport is the HTTP
\* client raises the RiceDBError that says streaming needs gRPC and calls
\* nothing on the transport; when the transport is the gRPC client the call
\* is forwarded to it exactly once.
C22_StreamSearchGuard ==
    (GotClient /\ curOp = "stream_search") =>
        /\ client \in {"grpc", "http"}
        /\ (client = "http" =>
                /\ lastResult = Raises("RiceDBError: not supported on this transport",
                                       "unified", {})
                /\ forwarded = <<>>)
        /\ (client = "grpc" =>
                /\ forwarded = <<"grpc.stream_search">>
                /\ lastResult.kind = "return")

\* stream_search on a connected HTTP transport reached by fallback
C22_Witness ==
    /\ GotClient
    /\ curOp = "stream_search"
    /\ transport_type = "auto"
    /\ client = "http"
    /\ clientConnected
    /\ forwarded = <<>>
    /\ lastResult.kind = "raise"
    /\ lastResult.origin = "unified"

\* C23 as stated: when a transport is connected and lacks the operation, the
\* error raised is not a ConnectionError, and no operation raises a
\* ConnectionError unless no transport could be established or the cached
\* transport is not connected.
C23_ConnectionErrorOnlyUnconnected ==
    Finished =>
        /\ (/\ curOp \in CapabilityOps
            /\ clientConnected
            /\ Lacks(client, curOp)
            /\ lastResult.kind = "raise")
           => lastResult.value # "ConnectionError"
        /\ (lastResult.kind = "raise" /\ lastResult.value = "ConnectionError")
           => (client = "none" \/ ~clientConnected)

\* C23 as amended: when a transport is connected and lacks the operation,
\* the error raised is not a ConnectionError; a capability operation raises
\* a ConnectionError only on a transport that is not connected, and any
\* other ConnectionError on a connected transport is the one health() makes
\* of a failed request to the server.
C23_CapabilityErrorDistinct ==
    Finished =>
        /\ (/\ curOp \in CapabilityOps
            /\ clientConnected
            /\ Lacks(client, curOp)
            /\ lastResult.kind = "raise")
           => lastResult.value # "ConnectionError"
        /\ (/\ curOp \in CapabilityOps
            /\ lastResult.kind = "raise"
            /\ lastResult.value = "ConnectionError")
           => ~clientConnected
        /\ (/\ lastResult.kind = "raise"
            /\ lastResult.value = "ConnectionError"
            /\ clientConnected)
           => /\ curOp = "health"
              /\ Answer # "ok"
              /\ lastResult.origin = client

\* watch_memory on a unified client that fell back to a connected HTTP client
C23_Witness ==
    /\ Finished
    /\ transport_type = "auto"
    /\ curOp = "watch_memory"
    /\ client = "http"
    /\ clientConnected
    /\ lastResult = Unsupported("http")
    /\ lastResult.value # "ConnectionError"

\* C24: while fast_ingest runs on a transport that is connected, no step of
\* the calling thread or of a worker changes which transport is in use, its
\* connected flag, its connection handle or its token.
C24_TransportUnchanged ==
    [][(connected /\ stub)
        => /\ cached' = cached
           /\ connected' = connected
           /\ stub' = stub
           /\ token' = token]_vars

\* the call returned after two workers ran three batches, one of which
\* failed, on a connected HTTP client that never logged in
C24_Witness ==
    /\ summary.returned
    /\ cached = "http"
    /\ connected
    /\ stub
    /\ token = "none"
    /\ numThreads = 2
    /\ Len(batches) = 3
    /\ summary.failed_batches = 1

\* C30: every request a batch_insert call of fast_ingest built carries, for
\* each document of the batch in order, the document's own user_id when it
\* has one, else fast_ingest's user_id argument, else 1.
C30_DocumentUserIdWins ==
    \A b \in 1..Len(sent) :
        outcome[b].kind # "none" =>
            /\ Len(sent[b]) = Len(batches[b])
            /\ \A i \in 1..Len(batches[b]) :
                LET d == batches[b][i] IN
                    /\ docUser[d] # NoUser => sent[b][i] = docUser[d]
                    /\ (docUser[d] = NoUser /\ user_id # NoUser)
                       => sent[b][i] = user_id
                    /\ (docUser[d] = NoUser /\ user_id = NoUser)
                       => sent[b][i] = 1

\* one batch of two documents, the first with a user_id of its own, sent
\* while fast_ingest was given another user_id
C30_Witness ==
    /\ summary.returned
    /\ user_id = 3
    /\ Len(documents) = 2
    /\ docUser = <<2, NoUser>>
    /\ Len(batches) = 1
    /\ sent = << <<2, 3>> >>

\* C25: insert, search, delete and health of the unified client call the
\* transport _get_client returned exactly once and give the caller what that
\* call gave: when the transport raises, the operation raises that same
\* error, it never returns a value in its place, and with a cached transport
\* no other transport is constructed or connected.
C25_ErrorPropagates ==
    (GotClient /\ curOp \in DocumentOps \cup {"health"}) =>
        /\ forwarded = <<client \o "." \o curOp>>
        /\ (~selecting => selLog = <<>>)
        /\ LET refused == /\ client = "grpc"
                          /\ (curOp # "health" \/ ~clientStub)
               failed == refused \/ Answer # "ok"
           IN /\ failed <=> lastResult.kind = "raise"
              /\ ~failed => lastResult = Returns("ok")
              /\ failed => lastResult.origin = client
              /\ (failed /\ ~refused /\ Answer = "Exception")
                 => lastResult.value = "Exception"
              /\ (failed /\ client = "http" /\ Answer # "Exception")
                 => lastResult.value =
                        CASE curOp = "health" -> "ConnectionError"
                          [] curOp = "insert" -> "InsertError"
                          [] curOp = "search" -> "SearchError"
                          [] curOp = "delete" -> "RiceDBError"

\* search on a client that fell back to HTTP earlier: the request fails
\* while the gRPC server would answer, and SearchError reaches the caller
C25_Witness ==
    /\ Finished
    /\ transport_type = "auto"
    /\ curOp = "search"
    /\ ~selecting
    /\ client = "http"
    /\ clientConnected
    /\ grpcConnectTried
    /\ env = [grpc |-> "ok", http |-> "ConnectionError"]
    /\ lastResult = Raises("SearchError", "http", {})
    /\ forwarded = <<"http.search">>

\* ------------------------------------------------- the transports: the claims

\* C26 as stated: after connect() of the HTTP client, the call returned True
\* and the client is marked connected exactly when the health request was
\* answered with status 200; when the request raised, the call raised
\* ConnectionError and the client is not marked connected.
C26_ConnectMarksExactly ==
    trOp = "http.connect" =>
        LET a == trRequests[1].answer IN
            /\ (a = "200" <=> trResult = TrReturns("True"))
            /\ (a = "200" <=> httpConnected)
            /\ a = "RequestException"
               => /\ trResult = TrRaises("ConnectionError: Failed to connect")
                  /\ ~httpConnected

\* C27 as stated: health, login, insert, search and batch_insert called on
\* a gRPC client that is not connected raise ConnectionError("Not connected
\* to server") and issue no RPC.
C27_NotConnectedRefuses ==
    (trOp \in {"grpc." \o op : op \in GrpcCallOps} /\ ~grpcConnected) =>
        /\ trResult = TrRaises("ConnectionError: Not connected to server")
        /\ trRequests = <<>>

\* C28: batch_grant makes one grant request per entry of grants, in the
\* order of the list, whatever the earlier requests did; it returns, and
\* total is the length of the list and the sum of successful and failed.
C28_EveryGrantAttempted ==
    trOp = "http.batch_grant" =>
        /\ Len(trRequests) = Len(trArgs)
        /\ \A i \in 1..Len(trArgs) :
            /\ trRequests[i].req = "grant"
            /\ trRequests[i].user = trArgs[i]
        /\ trResult.kind = "return"
        /\ trResult.total = Len(trArgs)
        /\ trResult.total = trResult.successful + trResult.failed
        /\ trResult.successful =
            Cardinality({i \in 1..Len(trRequests) : trRequests[i].answer = "ok"})
        /\ trResult.successful = Len(trResult.results)
        /\ trResult.failed = Len(trResult.errors)

\* three grants of which the first fails and the later two succeed
C28_Witness ==
    /\ trOp = "http.batch_grant"
    /\ trArgs = <<2, 1, 2>>
    /\ trRequests = <<Request("grant", 2, "RequestException"),
                      Request("grant", 1, "ok"), Request("grant", 2, "ok")>>
    /\ trResult.total = 3
    /\ trResult.successful = 2
    /\ trResult.failed = 1
    /\ trResult.errors = <<1>>

\* C29: insert_with_acl with an empty list raises ValueError and makes no
\* request; otherwise its first request is the insert for the first user,
\* every later request is a grant for a user after the first, in order; when
\* the insert fails nothing else is requested and InsertError is raised;
\* when it succeeds every user after the first gets one grant request and
\* acl_users lists every user of the list.
C29_InsertBeforeGrants ==
    trOp = "http.insert_with_acl" =>
        /\ trArgs = <<>>
           => trResult = TrRaises("ValueError") /\ trRequests = <<>>
        /\ trArgs # <<>>
           => /\ Len(trRequests) >= 1
              /\ trRequests[1].req = "insert"
              /\ trRequests[1].user = trArgs[1]
              /\ \A i \in 2..Len(trRequests) :
                    /\ trRequests[i].req = "grant"
                    /\ i <= Len(trArgs)
                    /\ trRequests[i].user = trArgs[i]
              /\ trRequests[1].answer # "ok"
                 => /\ Len(trRequests) = 1
                    /\ trResult.kind = "raise"
                    /\ trResult.value = "InsertError: Failed to insert with ACL"
              /\ trRequests[1].answer = "ok"
                 => /\ Len(trRequests) = Len(trArgs)
                    /\ trResult.kind = "return"
                    /\ trResult.acl_users = trArgs
                    /\ trResult.acl_grants = (Len(trArgs) > 1)

\* three users, the grant for the second fails, the one for the third is
\* still made
C29_Witness ==
    /\ trOp = "http.insert_with_acl"
    /\ trArgs = <<2, 1, 2>>
    /\ trRequests = <<Request("insert", 2, "ok"),
                      Request("grant", 1, "Exception"),
                      Request("grant", 2, "ok")>>
    /\ trResult.kind = "return"
    /\ trResult.acl_users = <<2, 1, 2>>
    /\ trResult.failed = 1

\* ---------------------------------------------------------------------
\* the selector, continued: what stays cached, connect() and the queries
\* ---------------------------------------------------------------------

\* the selection of the operation just finished ran and ended without a
\* connected transport: the HTTP attempt, the last one, failed
SelectionFailed ==
    /\ Finished
    /\ selecting
    /\ LastEvent \in {"http_connect_failed", "http_construct_failed"}

\* C32: in auto mode a selection that failed on both channels leaves no
\* transport cached, so that the next operation runs the selection again
\* instead of being handed a transport that never connected
C32_FailedSelectionCachesNothing ==
    (transport_type = "auto" /\ SelectionFailed) => client = "none"

\* C33: when connect() returns True the unified client's own flag is set
\* and its port is the port of the transport in use; after disconnect()
\* the flag is cleared
C33_ConnectSetsFlagAndPort ==
    /\ (Finished /\ curOp = "connect" /\ lastResult = Returns("True"))
            => /\ uConnected
               /\ uPort = PortOf(client)
    /\ (pcS = "idle" /\ curOp = "disconnect") => ~uConnected

\* C34: connect() called while the cached transport is connected returns
\* True and does nothing else: _get_client hands back the cached client
\* without constructing one, the transport's connect is not called again
\* and the cached transport and its state stay as they were
C34_ConnectIdempotent ==
    [][/\ (pcS = "idle" /\ clientConnected /\ curOp' = "connect" /\ pcS' # "idle")
            => /\ pcS' = "haveClient"
               /\ UNCHANGED <<client, clientConnected, clientStub, grpcTried,
                              httpTried, grpcConnectTried, httpConnectTried>>
       /\ (pcS = "haveClient" /\ curOp = "connect" /\ clientConnected)
            => /\ pcS' = "idle"
               /\ lastResult' = Returns("True")
               /\ selLog' = selLog
               /\ UNCHANGED <<client, clientConnected, clientStub, grpcTried,
                              httpTried, grpcConnectTried, httpConnectTried>>
      ]_vars

\* a connect() that found the client cached and connected has returned
C34_Witness ==
    /\ Finished
    /\ curOp = "connect"
    /\ ~selecting
    /\ selLog = <<>>
    /\ clientConnected
    /\ lastResult = Returns("True")
    /\ opsDone >= 2

\* C37: get_transport_info() only reads: no step of the call constructs a
\* transport, connects one or changes the cached transport, whatever the
\* selector's state when it is called
C37_InfoReadOnly ==
    [][curOp' = "get_transport_info"
            => UNCHANGED <<client, clientConnected, clientStub, grpcTried,
                           httpTried, grpcConnectTried, httpConnectTried>>
      ]_vars

\* ---------------------------------------------------------------------
\* fast_ingest, continued: the summary as a function of the outcomes
\* ---------------------------------------------------------------------

\* C35: the totals of the summary are determined by what the batch_insert
\* calls did, whatever the order in which the batches were read and
\* whatever max_workers is: total_inserted is the sum of what the
\* successful batches reported, failed_batches the number of batches that
\* raised and len(errors) the smaller of that number and 10; the order of
\* completion shows only in errors, which holds messages of distinct
\* failed batches in the order they were read
C35_OrderIndependent ==
    pc = "done" =>
        /\ summary.total_inserted = SumOver(Succeeded, Reported)
        /\ summary.failed_batches = Cardinality(Raised)
        /\ Len(summary.errors) = Min(ErrorCap, Cardinality(Raised))
        /\ \A i \in DOMAIN summary.errors :
                \E b \in Raised : summary.errors[i] = Message(b)
        /\ stub => \A i, j \in DOMAIN summary.errors :
                        i # j => summary.errors[i] # summary.errors[j]

\* on two workers a later batch failed first, then an earlier one, and a
\* success was read in between or after: the totals are those of the
\* outcomes, the messages are in completion order
C35_Witness ==
    /\ pc = "done"
    /\ max_workers = 2
    /\ Len(batches) >= 3
    /\ summary.errors = <<2, 1>>
    /\ summary.failed_batches = 2
    /\ Succeeded # {}
    /\ summary.total_inserted = SumOver(Succeeded, Reported)
    /\ summary.total_inserted > 0

\* every successful batch_insert reported the length of its batch, or no
\* count at all
CountsAreLengths ==
    \A b \in Succeeded :
        outcome[b].kind = "count" => outcome[b].count = Len(batches[b])

\* the number of documents in the batches whose batch_insert raised
FailedDocuments == SumOver(Raised, [b \in DOMAIN batches |-> Len(batches[b])])

\* C36: when every successful batch_insert reports the length of its batch
\* or no count, the summary accounts for every document once:
\* total_inserted plus the documents of the failed batches is
\* len(documents), and total_inserted is at most len(documents); for an
\* empty document list there is no batch and no batch_insert call, and the
\* summary has 0 inserted, 0 failed, no errors and, whatever time was
\* measured, throughput 0
C36_EveryDocumentAccounted ==
    pc = "done" =>
        /\ CountsAreLengths
            => /\ summary.total_inserted + FailedDocuments = Len(documents)
               /\ summary.total_inserted <= Len(documents)
        /\ documents = <<>>
            => /\ batches = <<>>
               /\ calls = <<>>
               /\ summary.total_inserted = 0
               /\ summary.failed_batches = 0
               /\ summary.errors = <<>>
               /\ \A t \in ElapsedTimes :
                    Throughput(summary.total_inserted, t).num = 0

\* three documents in batches of two: the full batch failed, the short one
\* came back without a count and is counted with its length
C36_Witness ==
    /\ pc = "done"
    /\ Len(documents) = 3
    /\ batch_size = 2
    /\ outcome[1].kind = "raise"
    /\ outcome[2].kind = "nocount"
    /\ summary.total_inserted = 1
    /\ summary.failed_batches = 1
    /\ FailedDocuments = 2

\* ---------------------------------------------------------------------
\* the transports, continued: the token
\* ---------------------------------------------------------------------

\* the last call was a login
LoggedIn == trOp \in {"http.login", "grpc.login"}

\* the last call was an authenticated request (batch_insert, which
\* fast_ingest calls for each batch, insert or search) that went out
AuthenticatedCall ==
    /\ trOp \in {"http." \o op : op \in HttpCallOps}
                \cup {"grpc." \o op : op \in GrpcCallOps \ Unauthenticated}
    /\ trRequests # <<>>

\* C38: each transport keeps its own token. A login that succeeds returns
\* a token and stores it on the transport it was called on, a login that
\* fails raises and leaves that transport's token and Authorization header
\* as they were, no other call changes a token, and every authenticated
\* request a transport sends carries "Bearer" with the token it holds (no
\* authorization as long as it holds none)
C38_TokenOwned ==
    /\ [](/\ httpAuthorization
                = (IF httpToken = "none" THEN "none" ELSE Bearer(httpToken))
          /\ AuthenticatedCall
                => \A i \in DOMAIN trRequests :
                        /\ i \in DOMAIN trAuth
                        /\ trAuth[i] =
                            IF trOp \in {"http." \o op : op \in HttpCallOps}
                            THEN (IF httpToken = "none" THEN "none"
                                  ELSE Bearer(httpToken))
                            ELSE (IF grpcToken = "none" THEN "none"
                                  ELSE Bearer(grpcToken)))
    /\ [][/\ (trOp' = "http.login" /\ trResult'.kind = "return")
                => /\ trResult'.value \in Tokens
                   /\ httpToken' = trResult'.value
                   /\ grpcToken' = grpcToken
          /\ (trOp' = "grpc.login" /\ trResult'.kind = "return")
                => /\ trResult'.value \in Tokens
                   /\ grpcToken' = trResult'.value
                   /\ UNCHANGED <<httpToken, httpAuthorization>>
          /\ (trOp' \in {"http.login", "grpc.login"} => trResult'.kind # "none")
          /\ ~(trOp' \in {"http.login", "grpc.login"} /\ trResult'.kind = "return")
                => UNCHANGED <<httpToken, httpAuthorization, grpcToken>>
         ]_vars

\* the gRPC client, logged in a second time, sends a batch with its newer
\* token while the HTTP client holds a token of its own
C38_Witness ==
    /\ trOp = "grpc.batch_insert"
    /\ grpcToken = "t2"
    /\ httpToken = "t1"
    /\ httpAuthorization = "Bearer t1"
    /\ trRequests = <<Request("BatchInsert", 0, "ok")>>
    /\ trAuth = <<"Bearer t2">>

\* ---------------------------------------------------------------------
\* _get_client entered by several threads: the claim
\* ---------------------------------------------------------------------

\* the threads that ran the selection: each of them built a gRPC client
Selectors ==
    {t \in Callers : transportState[[owner |-> t, kind |-> "grpc"]] # "absent"}

\* C31: when several threads make the first call through an auto-mode
\* client with nothing cached, every transport _get_client hands to a
\* thread is one whose connect has succeeded (never one that is still
\* being probed or was found unreachable), and the selection is run by at
\* most one thread
C31_HandedConnectedOnce ==
    /\ \A t \in Callers :
            handed[t] # NotHanded => handed[t].state = "connected"
    /\ Cardinality(Selectors) <= 1

====
